---- MODULE Spec2Model ----
(***************************************************************************)
(* Where-clause compilation of the ORM: WhereNode.as_sql                   *)
(* (django/db/models/sql/where.py) and the Lookup classes                  *)
(* (django/db/models/lookups/lookups.py).                                  *)
(*                                                                         *)
(* SQL text is kept as a sequence of string pieces, the way In.as_sql      *)
(* builds in_clause_elements before ''.join; Text joins the pieces.  The   *)
(* piece "%s" is a parameter placeholder.  Python values are strings       *)
(* ("18", "active"); None and '' as a table alias are both "".             *)
(***************************************************************************)
EXTENDS Integers, Sequences, FiniteSets, TLC

VARIABLES root, connection, result, atom, compiled,
          clone, change_map, calls,
          range_value, settings, to_python_result, db_prep_value,
          from_string_result, isoformat_result,
          add_data, add_connector, add_outcome, iterator_left,
          prepare_calls,
          normalized, source_field, related_value, converted, copied,
          recompiled

\* the copy of the where-tree that is relabeled, the change map handed to
\* relabel_aliases and the number of calls made
relabelVars == <<clone, change_map, calls>>

\* the value handed to the range type, the settings in force, and the
\* outcomes of to_python, get_db_prep_value, from_string and isoformat
rangeVars == <<range_value, settings, to_python_result, db_prep_value,
               from_string_result, isoformat_result>>

\* the where-tree, the backend, the outcomes of as_sql and make_atom, and
\* the positions of the root's children that as_sql compiled, in order
whereVars == <<root, connection, result, atom, compiled>>

\* the arguments of a call of WhereNode.add on the root as they were when
\* the call was made, the outcome of the call, and what the iterator
\* handed in as the value will still yield
addVars == <<add_data, add_connector, add_outcome, iterator_left,
             prepare_calls>>

\* the outcome of common_normalize for the first leaf, the source field of
\* a RelatedLookup, the value handed to its convert_value and the outcome,
\* the deep copy of the first leaf's Lookup, and the outcome of compiling
\* the root a second time
lookupVars == <<normalized, source_field, related_value, converted, copied,
                recompiled>>

vars == <<root, connection, result, atom, compiled, relabelVars, rangeVars,
          addVars, lookupVars>>

(* ------------------------------ bounds -------------------------------- *)
\* Largest number of descendants (children at every depth) of a root.
MaxSize == 3
\* Longest candidate list handed to the In lookup.
MaxListLen == 5
\* Largest backend limit on the length of one IN list.
MaxInListSize == 3
\* Largest number of descendants of a root that a child is added to.
MaxAddSize == 2
\* Largest number of descendants of a root whose children raise errors.
MaxErrorSize == 2
\* Longest chain of related objects handed to convert_value.
MaxChain == 3
\* Largest number of descendants of a root that is relabeled.
MaxRelabelSize == 2
\* Largest number of relabel_aliases calls on one tree.
MaxCalls == 2
\* Longest list or tuple handed to the range type.
MaxSeqLen == 3

(* --------------------------- text helpers ----------------------------- *)
RECURSIVE Text(_)
\* ''.join(pieces)
Text(pieces) ==
    IF pieces = <<>> THEN "" ELSE Head(pieces) \o Text(Tail(pieces))

RECURSIVE Join(_, _)
\* sep.join(fragments), each fragment a sequence of pieces
Join(fragments, sep) ==
    IF fragments = <<>> THEN <<>>
    ELSE IF Len(fragments) = 1 THEN Head(fragments)
    ELSE Head(fragments) \o <<sep>> \o Join(Tail(fragments), sep)

RECURSIVE Fmt(_, _)
\* template % args: every "%s" piece of the template takes the next
\* argument, "%%s" is the literal placeholder %s
Fmt(template, args) ==
    IF template = <<>> THEN <<>>
    ELSE IF Head(template) = "%s"
         THEN Head(args) \o Fmt(Tail(template), Tail(args))
    ELSE IF Head(template) = "%%s"
         THEN <<"%s">> \o Fmt(Tail(template), args)
    ELSE <<Head(template)>> \o Fmt(Tail(template), args)

RECURSIVE repeat(_, _)
\* itertools.repeat(x, n) as a list of n fragments
repeat(x, n) == IF n = 0 THEN <<>> ELSE <<x>> \o repeat(x, n - 1)

\* number of placeholder pieces in a sequence of pieces
Placeholders(pieces) == Cardinality({i \in 1..Len(pieces) : pieces[i] = "%s"})

min(a, b) == IF a < b THEN a ELSE b

(* ----------------------------- outcomes ------------------------------- *)
\* no call made yet
Pending == [kind |-> "pending"]
\* raise EmptyResultSet   (datastructures.py)
EmptyResultSet == [kind |-> "raise", exc |-> "EmptyResultSet"]
\* return sql, params
Return(sql, params) ==
    [kind |-> "return", none |-> FALSE, sql |-> sql, params |-> params]
\* return None, params
ReturnNone(params) ==
    [kind |-> "return", none |-> TRUE, sql |-> <<>>, params |-> params]

\* the outcome of any other call: a returned value or a raised exception
Returns(v) == [kind |-> "return", value |-> v]
Raises(exc) == [kind |-> "raise", exc |-> exc]

IsEmpty(o) == o = EmptyResultSet
IsEverything(o) == o.kind = "return" /\ ~o.none /\ o.sql = <<>>
IsSkipped(o) == o.kind = "return" /\ o.none
IsSql(o) == o.kind = "return" /\ ~o.none /\ o.sql # <<>>
\* an exception that is not EmptyResultSet
IsError(o) == o.kind = "raise" /\ o # EmptyResultSet

(* --------------------------- connection ------------------------------- *)
Vendors == {"generic", "oracle"}

\* qn: quote_name_unless_alias of the backend
qn(conn, name) ==
    IF conn.vendor = "oracle" THEN "\"" \o name \o "\"" ELSE name

\* connection.operators
operators ==
    [exact |-> <<"= ", "%s">>,
     gt    |-> <<"> ", "%s">>,
     gte   |-> <<">= ", "%s">>,
     lt    |-> <<"< ", "%s">>,
     lte   |-> <<"<= ", "%s">>]

\* connection.ops.field_cast_sql(db_type)
field_cast_sql(conn, db_type) == <<"%s">>

\* connection.ops.lookup_cast(lookup_name)
lookup_cast(conn, lookup_name) == <<"%s">>

\* connection.ops.datetime_cast_sql()
datetime_cast_sql(conn) ==
    IF conn.vendor = "oracle"
    THEN <<"TO_TIMESTAMP(", "%s", ", 'YYYY-MM-DD HH24:MI:SS.FF')">>
    ELSE <<"%s">>

\* connection.ops.max_in_list_size(); 0 stands for None (no limit)
max_in_list_size(conn) == conn.max_in_list_size

Connections ==
    [vendor : Vendors, max_in_list_size : 0..MaxInListSize]

DefaultConnection == [vendor |-> "generic", max_in_list_size |-> 0]

(* ------------------------------ fields -------------------------------- *)
\* Python's None: a range bound, a range value, the field of a Constraint
None == [kind |-> "None"]

IntegerField == [internal_type |-> "IntegerField"]
CharField    == [internal_type |-> "CharField"]
DecimalField == [internal_type |-> "DecimalField"]
DateField == [internal_type |-> "DateField"]
DateTimeField == [internal_type |-> "DateTimeField"]
\* a relation to another model
ForeignKey == [internal_type |-> "ForeignKey"]

\* the exception field.get_db_prep_value raises for a value, "" if it
\* returns: a relation cannot convert an object whose related row is gone
get_db_prep_value_error(field, value) ==
    IF field.internal_type = "ForeignKey" /\ value = "missing"
    THEN "ObjectDoesNotExist" ELSE ""

\* field.get_db_prep_value(value, connection, prepared=False)
get_db_prep_value(field, value, conn) ==
    IF field.internal_type = "DecimalField" THEN value \o ".00" ELSE value

\* field.db_type(connection)
db_type(field, conn) == field.internal_type

(* --------------------------- data model ------------------------------- *)
AND == "AND"
OR == "OR"

\* Constraint(alias, col, field)
Constraint(alias, col, field) == [alias |-> alias, col |-> col, field |-> field]

Scalar(v) == [kind |-> "scalar", v |-> v]
List(items) == [kind |-> "list", items |-> items]

\* a leaf child: the tuple (obj, lookup, value_annotation, value)
Leaf(lvalue, lookup, value_annotation, value) ==
    [type |-> "leaf", lvalue |-> lvalue, lookup |-> lookup,
     value_annotation |-> value_annotation, value |-> value]

WhereNode(connector, negated, children) ==
    [type |-> "WhereNode", connector |-> connector, negated |-> negated,
     children |-> children]

EverythingNode == [type |-> "EverythingNode"]
NothingNode == [type |-> "NothingNode"]

\* value annotations: the datetime class, True, False
ValueAnnotations == {"datetime", "True", "False"}

\* not value_annotation
Falsy(value_annotation) == value_annotation = "False"

(* ------------------------------ lookups ------------------------------- *)
\* a Lookup instance is stateless: it is named by its lookup_name
SimpleLookups == {"exact", "lt", "lte", "gt", "gte"}
Lookups == SimpleLookups \cup {"isnull", "in"}
\* the subclasses of DateBase
DateLookups == {"month", "day", "week_day"}

\* the class attribute rhs_prepare of each Lookup
rhs_prepare(lookup) ==
    CASE lookup \in SimpleLookups -> "FIELD_PREPARE"
      [] lookup = "in" -> "LIST_FIELD_PREPARE"
      [] lookup = "range" -> "LIST_FIELD_PREPARE"
      [] OTHER -> "RAW"

\* Lookup.prepare_lhs: the SQL of the left-hand side (its db_type is
\* only used to pick the field cast)
prepare_lhs(lvalue, conn) ==
    LET lhs == IF lvalue.alias # ""
               THEN <<qn(conn, lvalue.alias), ".", qn(conn, lvalue.col)>>
               ELSE <<qn(conn, lvalue.col)>>
        lhs_db_type == IF lvalue.field # None
                       THEN db_type(lvalue.field, conn) ELSE "None"
    IN Fmt(field_cast_sql(conn, lhs_db_type), <<lhs>>)

\* a value that compiles to SQL of its own, an instance of the given class
Subquery(class, sql, params) ==
    [kind |-> "subquery", class |-> class, sql |-> sql, params |-> params]

\* the attributes of a value that the code probes with hasattr
Capabilities(value) ==
    IF value.kind # "subquery" THEN {}
    ELSE CASE value.class = "QuerySet" -> {"_as_sql"}
           [] value.class = "Query" ->
                {"get_compiler", "as_sql", "relabel_aliases"}
           [] value.class = "SQLCompiler" -> {"as_sql"}
           [] value.class = "SQLEvaluator" -> {"as_sql", "relabel_aliases"}
           [] value.class = "QueryWrapper" -> {"as_sql"}

hasattr(value, name) == name \in Capabilities(value)

\* QueryWrapper(sql, params)
QueryWrapper(sql, params) == Subquery("QueryWrapper", sql, params)

\* value.get_compiler(connection=connection)
get_compiler(value, conn) == Subquery("SQLCompiler", value.sql, value.params)

\* lines 139-148 of common_normalize, after get_compiler
wrap_subquery(value) ==
    IF hasattr(value, "relabel_aliases") THEN value
    ELSE QueryWrapper(<<"(">> \o value.sql \o <<")">>, value.params)

\* Lookup.common_normalize for a value that is a sub-query
common_normalize_subquery(value, conn) ==
    IF hasattr(value, "get_compiler")
    THEN wrap_subquery(get_compiler(value, conn))
    ELSE wrap_subquery(value)

\* faulty variant of common_normalize: the field converts the value in
\* RAW mode too
common_normalize_raw_converted(lookup, value, field, conn) ==
    IF rhs_prepare(lookup) = "LIST_FIELD_PREPARE"
    THEN [i \in 1..Len(value.items) |->
             get_db_prep_value(field, value.items[i], conn)]
    ELSE <<get_db_prep_value(field, value.v, conn)>>

\* Lookup.common_normalize for a value that is no sub-query
common_normalize(lookup, value, field, conn) ==
    CASE rhs_prepare(lookup) = "RAW" -> <<value.v>>
      [] rhs_prepare(lookup) = "FIELD_PREPARE" ->
            <<get_db_prep_value(field, value.v, conn)>>
      [] rhs_prepare(lookup) = "LIST_FIELD_PREPARE" ->
            [i \in 1..Len(value.items) |->
                get_db_prep_value(field, value.items[i], conn)]

\* the numerals int() accepts and the integers they denote
Numerals == {"2012", "02012", "7", "18"}
int(v) == IF v = "02012" THEN "2012" ELSE v

\* connection.ops.year_lookup_bounds(value) and
\* connection.ops.year_lookup_bounds_for_date_field(value)
year_lookup_bounds(conn, year) ==
    <<year \o "-01-01 00:00:00", year \o "-12-31 23:59:59.999999">>
year_lookup_bounds_for_date_field(conn, year) ==
    <<year \o "-01-01", year \o "-12-31">>

\* connection.ops.date_extract_sql(lookup_type, field_name)
date_extract_sql(conn, lookup_type, field_name) ==
    <<"EXTRACT('", lookup_type, "' FROM ">> \o field_name \o <<")">>

\* Lookup.normalize_value: the subclass hook, overridden by Year and
\* DateBase
normalize_value(lookup, params, field, conn) ==
    CASE lookup = "year" ->
            IF field.internal_type = "DateField"
            THEN year_lookup_bounds_for_date_field(conn, int(params[1]))
            ELSE year_lookup_bounds(conn, int(params[1]))
      [] lookup \in DateLookups -> <<int(params[1])>>
      [] OTHER -> params

\* the exception common_normalize raises for a value that is no sub-query,
\* "" if it returns
common_normalize_error(lookup, value, field, conn) ==
    CASE rhs_prepare(lookup) = "FIELD_PREPARE" ->
            get_db_prep_value_error(field, value.v)
      [] rhs_prepare(lookup) = "LIST_FIELD_PREPARE" ->
            IF \E i \in 1..Len(value.items) :
                  get_db_prep_value_error(field, value.items[i]) # ""
            THEN "ObjectDoesNotExist" ELSE ""
      [] OTHER -> ""

\* the exception normalize_value raises, "" if it returns: a sub-query
\* cannot be indexed and int() takes numerals only
normalize_value_error(lookup, value) ==
    IF lookup = "year" \/ lookup \in DateLookups
    THEN IF value.kind = "subquery" THEN "TypeError"
         ELSE IF value.v \notin Numerals THEN "ValueError" ELSE ""
    ELSE ""

\* a call of Lookup.common_normalize: what it returns or raises
common_normalize_call(lookup, value, field, conn) ==
    IF value.kind = "subquery"
    THEN Returns(common_normalize_subquery(value, conn))
    ELSE IF common_normalize_error(lookup, value, field, conn) # ""
    THEN Raises(common_normalize_error(lookup, value, field, conn))
    ELSE Returns(common_normalize(lookup, value, field, conn))

\* the exception raised by lines 87-89 of make_atom, "" if none
normalize_error(lookup, value, field, conn) ==
    IF value.kind # "subquery"
          /\ common_normalize_error(lookup, value, field, conn) # ""
    THEN common_normalize_error(lookup, value, field, conn)
    ELSE normalize_value_error(lookup, value)

\* faulty variant of In.cast_sql: the emptiness test is missing
cast_sql_never_raises(lookup, value_annotation) == FALSE

\* whether cast_sql raises EmptyResultSet (In.cast_sql)
cast_sql_raises(lookup, value_annotation) ==
    lookup = "in" /\ Falsy(value_annotation)

\* Lookup.cast_sql / In.cast_sql when it returns
cast_sql(lookup, value_annotation, conn) ==
    IF lookup = "in" THEN <<"%s">>
    ELSE IF value_annotation = "datetime" THEN datetime_cast_sql(conn)
    ELSE <<"%s">>

\* Lookup.rhs_format
rhs_format(cast, extra) ==
    IF extra # <<>> THEN Fmt(cast, <<extra>>) ELSE cast

\* SimpleLookup.as_sql
SimpleLookup_as_sql(lookup, lhs_clause, rhs, params, conn) ==
    LET lhs == Fmt(lookup_cast(conn, lookup), <<lhs_clause>>)
        rhs_clause == Fmt(operators[lookup], <<rhs>>)
    IN Return(lhs \o <<" ">> \o rhs_clause, params)

RECURSIVE InChunks_full_groups(_, _, _, _, _)
\* faulty variant of InChunks: group_size is max_in_list_size, without the
\* min against the values that are left
InChunks_full_groups(lhs_clause, cast, n, size, offset) ==
    IF offset >= n THEN <<>>
    ELSE (IF offset > 0 THEN <<" OR ">> ELSE <<>>)
         \o lhs_clause \o <<" IN (">>
         \o Join(repeat(cast, size), ", ")
         \o <<")">>
         \o InChunks_full_groups(lhs_clause, cast, n, size, offset + size)

RECURSIVE InChunks(_, _, _, _, _)
\* the body of the chunk loop of In.as_sql, from `offset` on
InChunks(lhs_clause, cast, n, size, offset) ==
    IF offset >= n THEN <<>>
    ELSE (IF offset > 0 THEN <<" OR ">> ELSE <<>>)
         \o lhs_clause \o <<" IN (">>
         \o Join(repeat(cast, min(n - offset, size)), ", ")
         \o <<")">>
         \o InChunks(lhs_clause, cast, n, size, offset + size)

\* faulty variant of In.as_sql: chunks as soon as len(params) >= the limit
In_as_sql_chunk_at_limit(lhs_clause, cast, params, conn) ==
    LET size == max_in_list_size(conn)
    IN IF size # 0 /\ Len(params) >= size
       THEN Return(<<"(">> \o InChunks(lhs_clause, cast, Len(params), size, 0)
                   \o <<")">>, params)
       ELSE Return(lhs_clause \o <<" IN (">>
                   \o Join(repeat(cast, Len(params)), ", ") \o <<")">>, params)

\* In.as_sql without a sub-query (extra is '')
In_as_sql(lhs_clause, cast, params, conn) ==
    LET size == max_in_list_size(conn)
    IN IF size # 0 /\ Len(params) > size
       THEN Return(<<"(">> \o InChunks(lhs_clause, cast, Len(params), size, 0)
                   \o <<")">>, params)
       ELSE Return(lhs_clause \o <<" IN (">>
                   \o Join(repeat(cast, Len(params)), ", ") \o <<")">>, params)

\* faulty variant of IsNull.make_atom: NOT is chosen from the stored value
\* instead of the value annotation
IsNull_from_value(lvalue, value_annotation, value, conn) ==
    LET lhs_clause == prepare_lhs(lvalue, conn)
    IN Return(lhs_clause \o <<" IS ">>
              \o (IF value.v = "False" THEN <<"NOT ">> ELSE <<>>)
              \o <<"NULL">>, <<>>)

\* IsNull.make_atom
IsNull_make_atom(lvalue, value_annotation, value, conn) ==
    LET lhs_clause == prepare_lhs(lvalue, conn)
    IN Return(lhs_clause \o <<" IS ">>
              \o (IF Falsy(value_annotation) THEN <<"NOT ">> ELSE <<>>)
              \o <<"NULL">>, <<>>)

\* In.as_sql
In_as_sql_extra(lhs_clause, cast, extra, params, conn) ==
    IF extra # <<>> THEN Return(lhs_clause \o <<" IN ">> \o extra, params)
    ELSE In_as_sql(lhs_clause, cast, params, conn)

\* Range.as_sql and Year.as_sql
Range_as_sql(lhs_clause, params) ==
    Return(lhs_clause \o <<" BETWEEN ", "%s", " AND ", "%s">>, params)

\* DateBase.as_sql
DateBase_as_sql(lookup, lhs_clause, params, conn) ==
    Return(date_extract_sql(conn, lookup, lhs_clause) \o <<" = ", "%s">>,
           params)

\* lines 95-96 of make_atom: rhs_format and as_sql of the lookup's class
Lookup_as_sql(lookup, lhs_clause, cast, extra, params, conn) ==
    CASE lookup = "in" -> In_as_sql_extra(lhs_clause, cast, extra, params, conn)
      [] lookup \in {"range", "year"} -> Range_as_sql(lhs_clause, params)
      [] lookup \in DateLookups ->
            DateBase_as_sql(lookup, lhs_clause, params, conn)
      [] OTHER -> SimpleLookup_as_sql(lookup, lhs_clause,
                                      rhs_format(cast, extra), params, conn)

\* lines 91-96 of make_atom when the normalized value has as_sql
make_atom_subquery(lookup, lhs_clause, cast, wrapped, conn) ==
    Lookup_as_sql(lookup, lhs_clause, cast, wrapped.sql, wrapped.params, conn)

\* Lookup.make_atom
Lookup_make_atom(lookup, lvalue, value_annotation, value, conn) ==
    IF normalize_error(lookup, value, lvalue.field, conn) # ""
    THEN Raises(normalize_error(lookup, value, lvalue.field, conn))
    ELSE IF cast_sql_raises(lookup, value_annotation) THEN EmptyResultSet
    ELSE IF value.kind = "subquery"
    THEN make_atom_subquery(lookup, prepare_lhs(lvalue, conn),
                            cast_sql(lookup, value_annotation, conn),
                            common_normalize_subquery(value, conn), conn)
    ELSE Lookup_as_sql(lookup, prepare_lhs(lvalue, conn),
                       cast_sql(lookup, value_annotation, conn), <<>>,
                       normalize_value(lookup,
                           common_normalize(lookup, value, lvalue.field, conn),
                           lvalue.field, conn),
                       conn)

\* WhereNode.make_atom: dispatch on the leaf's lookup
make_atom(child, conn) ==
    IF child.lookup = "isnull"
    THEN IsNull_make_atom(child.lvalue, child.value_annotation, child.value, conn)
    ELSE Lookup_make_atom(child.lookup, child.lvalue, child.value_annotation,
                          child.value, conn)

(* ----------------------- WhereNode.as_sql ----------------------------- *)
\* the loop's locals before the first child   (lines 88-91); skip records
\* that the last child took the `continue` of line 110, compiled the
\* positions of the children the loop has compiled
Locals(node) ==
    [result |-> <<>>, result_params |-> <<>>, everything_childs |-> 0,
     nothing_childs |-> 0, non_empty_childs |-> Len(node.children),
     skip |-> FALSE, compiled |-> <<>>]

\* lines 100-111: account for one compiled child
Account(st, o) ==
    IF IsEmpty(o)
    THEN [st EXCEPT !.nothing_childs = @ + 1, !.skip = FALSE]
    ELSE IF IsSql(o)
    THEN [st EXCEPT !.result = Append(@, o.sql),
                    !.result_params = @ \o o.params, !.skip = FALSE]
    ELSE IF o.none
    THEN [st EXCEPT !.non_empty_childs = @ - 1, !.skip = TRUE]
    ELSE [st EXCEPT !.everything_childs = @ + 1, !.skip = FALSE]

\* faulty variant of lines 115-118: the AND branch is missing
Needed_or_only(connector, non_empty_childs) ==
    [full_needed |-> 1, empty_needed |-> non_empty_childs]

\* lines 115-118
Needed(connector, non_empty_childs) ==
    IF connector = AND
    THEN [full_needed |-> non_empty_childs, empty_needed |-> 1]
    ELSE [full_needed |-> 1, empty_needed |-> non_empty_childs]

\* faulty variant of lines 121-130: an EmptyResultSet of a child is not
\* caught but raised again by the node
Decide_uncaught(node, st) ==
    LET need == Needed(node.connector, st.non_empty_childs)
    IN IF st.nothing_childs > 0 THEN EmptyResultSet
       ELSE IF need.full_needed - st.everything_childs <= 0
       THEN (IF node.negated THEN EmptyResultSet ELSE Return(<<>>, <<>>))
       ELSE Pending

\* faulty variant of lines 121-130: the fullness test is strict (< 0)
Decide_strict(node, st) ==
    LET need == Needed(node.connector, st.non_empty_childs)
    IN IF need.empty_needed - st.nothing_childs <= 0
       THEN (IF node.negated THEN Return(<<>>, <<>>) ELSE EmptyResultSet)
       ELSE IF need.full_needed - st.everything_childs < 0
       THEN (IF node.negated THEN EmptyResultSet ELSE Return(<<>>, <<>>))
       ELSE Pending

\* faulty variant of lines 121-130: the thresholds are tested after the
\* last child only
Decide_after_last(node, st) ==
    LET need == Needed(node.connector, st.non_empty_childs)
    IN IF Len(st.compiled) < Len(node.children) THEN Pending
       ELSE IF need.empty_needed - st.nothing_childs <= 0
       THEN (IF node.negated THEN Return(<<>>, <<>>) ELSE EmptyResultSet)
       ELSE IF need.full_needed - st.everything_childs <= 0
       THEN (IF node.negated THEN EmptyResultSet ELSE Return(<<>>, <<>>))
       ELSE Pending

\* lines 121-130: the outcome decided after a child, or Pending to go on
Decide(node, st) ==
    LET need == Needed(node.connector, st.non_empty_childs)
    IN IF need.empty_needed - st.nothing_childs <= 0
       THEN (IF node.negated THEN Return(<<>>, <<>>) ELSE EmptyResultSet)
       ELSE IF need.full_needed - st.everything_childs <= 0
       THEN (IF node.negated THEN EmptyResultSet ELSE Return(<<>>, <<>>))
       ELSE Pending

\* faulty variant of lines 132-145: the joined fragments of a node that is
\* not negated are never parenthesised
Finish_no_parens(node, st) ==
    IF st.non_empty_childs = 0 THEN ReturnNone(<<>>)
    ELSE LET conn == " " \o node.connector \o " "
             sql_string == Join(st.result, conn)
         IN IF sql_string # <<>> /\ node.negated
            THEN Return(<<"NOT (">> \o sql_string \o <<")">>, st.result_params)
            ELSE Return(sql_string, st.result_params)

\* faulty variant of lines 132-145: the thresholds are tested once more
\* after the loop, before anything else
Finish_decides_first(node, st) ==
    IF Decide(node, st) # Pending THEN Decide(node, st)
    ELSE IF st.non_empty_childs = 0 THEN ReturnNone(<<>>)
    ELSE LET conn == " " \o node.connector \o " "
             sql_string == Join(st.result, conn)
         IN IF sql_string # <<>>
            THEN IF node.negated
                 THEN Return(<<"NOT (">> \o sql_string \o <<")">>,
                             st.result_params)
                 ELSE IF Len(st.result) > 1
                 THEN Return(<<"(">> \o sql_string \o <<")">>, st.result_params)
                 ELSE Return(sql_string, st.result_params)
            ELSE Return(sql_string, st.result_params)

\* faulty variant of lines 132-145: a single fragment is returned bare by
\* a negated node too
Finish_single_bare(node, st) ==
    IF st.non_empty_childs = 0 THEN ReturnNone(<<>>)
    ELSE LET conn == " " \o node.connector \o " "
             sql_string == Join(st.result, conn)
         IN IF sql_string # <<>> /\ Len(st.result) > 1
            THEN IF node.negated
                 THEN Return(<<"NOT (">> \o sql_string \o <<")">>,
                             st.result_params)
                 ELSE Return(<<"(">> \o sql_string \o <<")">>, st.result_params)
            ELSE Return(sql_string, st.result_params)

\* faulty variant of lines 132-145: the params are returned in reverse
Finish_params_reversed(node, st) ==
    IF st.non_empty_childs = 0 THEN ReturnNone(<<>>)
    ELSE LET conn == " " \o node.connector \o " "
             sql_string == Join(st.result, conn)
             params == [i \in 1..Len(st.result_params) |->
                          st.result_params[Len(st.result_params) + 1 - i]]
         IN IF sql_string # <<>>
            THEN IF node.negated
                 THEN Return(<<"NOT (">> \o sql_string \o <<")">>, params)
                 ELSE IF Len(st.result) > 1
                 THEN Return(<<"(">> \o sql_string \o <<")">>, params)
                 ELSE Return(sql_string, params)
            ELSE Return(sql_string, params)

\* lines 132-145: after the loop
Finish(node, st) ==
    IF st.non_empty_childs = 0 THEN ReturnNone(<<>>)
    ELSE LET conn == " " \o node.connector \o " "
             sql_string == Join(st.result, conn)
         IN IF sql_string # <<>>
            THEN IF node.negated
                 THEN Return(<<"NOT (">> \o sql_string \o <<")">>,
                             st.result_params)
                 ELSE IF Len(st.result) > 1
                 THEN Return(<<"(">> \o sql_string \o <<")">>, st.result_params)
                 ELSE Return(sql_string, st.result_params)
            ELSE Return(sql_string, st.result_params)

\* what a run of the loop leaves: the outcome of as_sql and the positions
\* of the children that were compiled
Ran(outcome, st) == [outcome |-> outcome, compiled |-> st.compiled]

RECURSIVE as_sql(_, _), Loop(_, _, _, _)
\* child.as_sql(...) or self.make_atom(child, ...)   (lines 95-99)
\* WhereNode.as_sql, EverythingNode.as_sql, NothingNode.as_sql
as_sql(node, conn) ==
    CASE node.type = "EverythingNode" -> Return(<<>>, <<>>)
      [] node.type = "NothingNode" -> EmptyResultSet
      [] node.type = "leaf" -> make_atom(node, conn)
      [] node.type = "WhereNode" -> Loop(node, conn, 1, Locals(node)).outcome

\* the for loop of WhereNode.as_sql from child i on   (lines 93-130)
Loop(node, conn, i, st) ==
    IF i > Len(node.children) THEN Ran(Finish(node, st), st)
    ELSE IF IsError(as_sql(node.children[i], conn))
    THEN Ran(as_sql(node.children[i], conn),
             [st EXCEPT !.compiled = Append(@, i)])
    ELSE LET st1 == [Account(st, as_sql(node.children[i], conn))
                        EXCEPT !.compiled = Append(@, i)]
         IN IF st1.skip THEN Loop(node, conn, i + 1, st1)
            ELSE LET d == Decide(node, st1)
                 IN IF d # Pending THEN Ran(d, st1)
                    ELSE Loop(node, conn, i + 1, st1)

(* ------------------------ alias relabeling ---------------------------- *)
\* a column reference kept as the tuple (alias, col, db_type)
ColumnTuple(alias, col, dbtype) ==
    [alias |-> alias, col |-> col, dbtype |-> dbtype]

\* isinstance(child[0], (list, tuple))
IsColumnTuple(lvalue) == "dbtype" \in DOMAIN lvalue

\* a value that exposes relabel_aliases: sub-query SQL over a table alias
Query(alias) == [kind |-> "query", alias |-> alias]

\* hasattr(child[3], 'relabel_aliases')
HasRelabelAliases(value) == value.kind = "query"

\* the change map that has no keys
NoChange == [a \in {} |-> a]

\* child[3].relabel_aliases(change_map) of a sub-query value
Query_relabel_aliases(value, chmap) ==
    IF value.alias \in DOMAIN chmap
    THEN [value EXCEPT !.alias = chmap[value.alias]]
    ELSE value

\* faulty variant of Constraint.relabel_aliases: the new alias is looked up
\* again for as long as it is a key of the map
Constraint_relabel_aliases_chained(lvalue, chmap) ==
    IF lvalue.alias \in DOMAIN chmap
    THEN IF chmap[lvalue.alias] \in DOMAIN chmap
         THEN [lvalue EXCEPT !.alias = chmap[chmap[lvalue.alias]]]
         ELSE [lvalue EXCEPT !.alias = chmap[lvalue.alias]]
    ELSE lvalue

\* Constraint.relabel_aliases   (datastructures.py)
Constraint_relabel_aliases(lvalue, chmap) ==
    IF lvalue.alias \in DOMAIN chmap
    THEN [lvalue EXCEPT !.alias = chmap[lvalue.alias]]
    ELSE lvalue

\* faulty variant of the tuple branch: an alias that is no key of the map
\* is reset to the empty alias
ColumnTuple_relabel_reset(elt, chmap) ==
    IF elt.alias \in DOMAIN chmap
    THEN [elt EXCEPT !.alias = chmap[elt.alias]]
    ELSE [elt EXCEPT !.alias = ""]

\* the tuple branch of WhereNode.relabel_aliases: elt[0] is replaced when
\* it is a key of the map
ColumnTuple_relabel(elt, chmap) ==
    IF elt.alias \in DOMAIN chmap
    THEN [elt EXCEPT !.alias = chmap[elt.alias]]
    ELSE elt

\* the leaf branch of WhereNode.relabel_aliases: the column reference, then
\* the value when it exposes relabel_aliases
Leaf_relabel(child, chmap) ==
    LET lvalue == IF IsColumnTuple(child.lvalue)
                  THEN ColumnTuple_relabel(child.lvalue, chmap)
                  ELSE Constraint_relabel_aliases(child.lvalue, chmap)
        value == IF HasRelabelAliases(child.value)
                 THEN Query_relabel_aliases(child.value, chmap)
                 ELSE child.value
    IN [child EXCEPT !.lvalue = lvalue, !.value = value]

RECURSIVE relabel_aliases(_, _)
\* WhereNode.relabel_aliases (and the relabel_aliases of EverythingNode and
\* NothingNode, which do nothing): the node as the call leaves it
relabel_aliases(node, chmap) ==
    CASE node.type = "EverythingNode" -> node
      [] node.type = "NothingNode" -> node
      [] node.type = "leaf" -> Leaf_relabel(node, chmap)
      [] node.type = "WhereNode" ->
            [node EXCEPT !.children =
                [pos \in 1..Len(node.children) |->
                    relabel_aliases(node.children[pos], chmap)]]

(* -------------------------- Lookup.__deepcopy__ ----------------------- *)
\* a Lookup instance as an object: where it lives, and its only state
LookupObject(address, lookup_name) ==
    [address |-> address, lookup_name |-> lookup_name]

\* faulty variant of __deepcopy__: the copy is a new object with the same
\* state
Lookup_deepcopy_new_object(self, memo) ==
    [self EXCEPT !.address = @ + 1]

\* Lookup.__deepcopy__(memo)
Lookup_deepcopy(self, memo) == self

(* --------------------------- RelatedLookup ---------------------------- *)
\* a model instance: its model, the name of its primary key
\* (_meta.pk.name) and its attributes, each a value or DoesNotExist
Instance(model, pk, attrs) ==
    [kind |-> "instance", model |-> model, pk |-> pk, attrs |-> attrs]

\* an attribute whose access raises ObjectDoesNotExist: the related row is
\* gone
DoesNotExist == [kind |-> "DoesNotExist"]

\* a relation field: its rel names the related model and, for a
\* many-to-one relation, the target field
RelatedField(rel) == [internal_type |-> "ForeignKey", rel |-> rel]

\* isinstance(value, self.source_field.rel.to)
isinstance(value, model) == value.kind = "instance" /\ value.model = model

RECURSIVE drill(_, _)
\* the try statement of convert_value (lines 439-447); "" is the
\* field_name None
drill(value, field_name) ==
    IF field_name = "" /\ value.kind # "instance" THEN Returns(value)
    ELSE IF (IF field_name = "" THEN value.pk ELSE field_name)
               \notin DOMAIN value.attrs
    THEN Returns(value)
    ELSE IF value.attrs[IF field_name = "" THEN value.pk ELSE field_name]
               = DoesNotExist
    THEN Returns(None)
    ELSE drill(value.attrs[IF field_name = "" THEN value.pk ELSE field_name],
               "")

\* RelatedLookup.convert_value
convert_value(field, value) ==
    IF isinstance(value, field.rel.to)
    THEN IF "field_name" \in DOMAIN field.rel
         THEN drill(value, field.rel.field_name)
         ELSE Raises("AttributeError")
    ELSE drill(value, "")

(* --------------------------- WhereNode.add ---------------------------- *)
\* a lookup_type argument: a Lookup instance or, by mistake, the name of
\* the operator as a string
LookupInstance(name) == [py |-> "Lookup", name |-> name]
LookupName(name) == [py |-> "str", name |-> name]

\* an iterator that will still yield the given items
Iterator(items) == [kind |-> "iterator", items |-> items]

\* a scalar of a class that declares a value_annotation attribute
Flagged(v, value_annotation) ==
    [kind |-> "scalar", v |-> v, value_annotation |-> value_annotation]

\* the scalars that are datetime.datetime instances
DatetimeScalars == {"2012-01-01 12:30:00"}

\* bool(value)
bool(value) ==
    CASE value.kind = "scalar" -> value.v \notin {"0", "", "None", "False"}
      [] value.kind = "list" -> value.items # <<>>
      [] OTHER -> TRUE

\* lines 53-56 of add: list(value) for an iterator
materialise(value) ==
    IF value.kind = "iterator" THEN List(value.items) ELSE value

\* lines 62-67 of add
value_annotation_of(value) ==
    IF value.kind = "scalar" /\ value.v \in DatetimeScalars THEN "datetime"
    ELSE IF "value_annotation" \in DOMAIN value THEN value.value_annotation
    ELSE IF bool(value) THEN "True" ELSE "False"

\* field.lookup_prep(lookup_name, value) of one value: a CharField makes
\* it text, the other fields give the plain number
lookup_prep(field, lookup_name, v) ==
    IF field.internal_type = "CharField" THEN "u'" \o v \o "'" ELSE v

\* Lookup.get_prep_lookup for a value without prepare or _prepare
get_prep_lookup(lookup, field, value) ==
    CASE rhs_prepare(lookup) = "FIELD_PREPARE" ->
            Scalar(lookup_prep(field, lookup, value.v))
      [] rhs_prepare(lookup) = "LIST_FIELD_PREPARE" ->
            List([i \in 1..Len(value.items) |->
                     lookup_prep(field, lookup, value.items[i])])
      [] OTHER -> value

\* Constraint.prepare
Constraint_prepare(obj, lookup, value) ==
    IF obj.field # None THEN get_prep_lookup(lookup, obj.field, value)
    ELSE value

\* django.utils.tree.Node.add(node, conn_type); a child equal to the new
\* one counts as the same object
Node_add(self, node, conn_type) ==
    IF /\ \E i \in 1..Len(self.children) : self.children[i] = node
       /\ conn_type = self.connector
    THEN self
    ELSE LET connector == IF Len(self.children) < 2 THEN conn_type
                          ELSE self.connector
         IN IF connector = conn_type
            THEN IF /\ node.type = "WhereNode"
                    /\ (node.connector = conn_type \/ Len(node.children) = 1)
                 THEN [self EXCEPT !.connector = connector,
                                   !.children = @ \o node.children]
                 ELSE [self EXCEPT !.connector = connector,
                                   !.children = Append(@, node)]
            ELSE [self EXCEPT
                    !.connector = conn_type,
                    !.children = <<WhereNode(connector, self.negated,
                                             self.children), node>>]

\* what a call of add leaves: the node, what the iterator handed in will
\* still yield, the number of calls of obj.prepare, and the outcome of the
\* call
Added(self, left, prepared, outcome) ==
    [self |-> self, left |-> left, prepare_calls |-> prepared,
     outcome |-> outcome]

\* what an iterator value will still yield (nothing for other values)
Left(value) == IF value.kind = "iterator" THEN value.items ELSE <<>>

\* the data argument for a new leaf: the tuple (obj, lookup_type, value)
Data(obj, lookup_type, value) ==
    [type |-> "data", obj |-> obj, lookup_type |-> lookup_type,
     value |-> value]

\* hasattr(obj, "prepare"): a Constraint has it, a column tuple has not
has_prepare(obj) == "field" \in DOMAIN obj

\* faulty variant of add_leaf: the annotation is taken from the prepared
\* value
add_leaf_annotates_prepared(self, obj, lookup, value, connector) ==
    Added(Node_add(self,
                   Leaf(obj, lookup,
                        value_annotation_of(
                            Constraint_prepare(obj, lookup, value)),
                        Constraint_prepare(obj, lookup, value)),
                   connector),
          <<>>, 1, Returns(None))

\* lines 58-73 of add, after a possible iterator has been turned into a
\* list
add_leaf(self, obj, lookup, value, connector) ==
    Added(Node_add(self,
                   Leaf(obj, lookup, value_annotation_of(value),
                        IF has_prepare(obj)
                        THEN Constraint_prepare(obj, lookup, value)
                        ELSE value),
                   connector),
          <<>>, IF has_prepare(obj) THEN 1 ELSE 0, Returns(None))

\* faulty variant of add: the lookup_type is tested after the value was
\* turned into a list and prepared
add_checks_lookup_last(self, data, connector) ==
    IF data.type # "data"
    THEN Added(Node_add(self, data, connector), <<>>, 0, Returns(None))
    ELSE IF data.lookup_type.py = "str"
    THEN Added(self, <<>>, 1, Raises("ValueError"))
    ELSE add_leaf(self, data.obj, data.lookup_type.name,
                  materialise(data.value), connector)

\* WhereNode.add(data, connector)
add(self, data, connector) ==
    IF data.type # "data"
    THEN Added(Node_add(self, data, connector), <<>>, 0, Returns(None))
    ELSE IF data.lookup_type.py = "str"
    THEN Added(self, Left(data.value), 0, Raises("ValueError"))
    ELSE add_leaf(self, data.obj, data.lookup_type.name,
                  materialise(data.value), connector)

(* --------------------------- range types ------------------------------ *)
\* Python values handed to the range type.  A string is a sequence of
\* pieces: brackets, commas, blanks, and the date, separator and time parts
\* of a timestamp.
Str(pieces) == [kind |-> "str", pieces |-> pieces]
Tuple(items) == [kind |-> "tuple", items |-> items]
Number(v) == [kind |-> "int", v |-> v]
\* datetime.date and datetime.datetime
PyDate(d) == [kind |-> "date", date |-> d]
PyDatetime(d, t) == [kind |-> "datetime", date |-> d, time |-> t]

\* the texts that are dates of the calendar, and well-formed texts that
\* are not
ValidDates == {"2012-01-01", "2012-01-02"}
InvalidDates == {"2012-13-01"}
Times == {"12:30:00", "12:33:00"}

\* django.utils.dateparse.parse_datetime: None for text of another form,
\* ValueError for a well-formed text that is no date
parse_datetime(pieces) ==
    IF /\ Len(pieces) = 3
       /\ pieces[1] \in ValidDates \cup InvalidDates
       /\ pieces[2] \in {"T", " "}
       /\ pieces[3] \in Times
    THEN IF pieces[1] \in ValidDates
         THEN Returns(PyDatetime(pieces[1], pieces[3]))
         ELSE Raises("ValueError")
    ELSE Returns(None)

\* django.utils.dateparse.parse_date
parse_date(pieces) ==
    IF Len(pieces) = 1 /\ pieces[1] \in ValidDates \cup InvalidDates
    THEN IF pieces[1] \in ValidDates
         THEN Returns(PyDate(pieces[1]))
         ELSE Raises("ValueError")
    ELSE Returns(None)

\* smart_str(value) of a value that is no date or datetime
smart_str(value) ==
    CASE value.kind = "str" -> value.pieces
      [] value.kind = "int" -> <<value.v>>
      [] OTHER -> <<"<", value.kind, ">">>

\* timezone.is_naive and timezone.make_aware with the default time zone
is_naive(dt) == "tzinfo" \notin DOMAIN dt
make_aware(dt) ==
    [kind |-> "datetime", date |-> dt.date, time |-> dt.time,
     tzinfo |-> "+02:00"]

\* a bound of a range going to the database: made aware if it is naive
aware(val) == IF is_naive(val) THEN make_aware(val) ELSE val

\* datetime.isoformat() and str(datetime)
isoformat(dt) ==
    <<dt.date, "T", dt.time>> \o (IF is_naive(dt) THEN <<>> ELSE <<dt.tzinfo>>)
str(dt) ==
    <<dt.date, " ", dt.time>> \o (IF is_naive(dt) THEN <<>> ELSE <<dt.tzinfo>>)

\* to_python_datetime   (rangetypes.py); the module never imports
\* warnings, which the date branch names when USE_TZ is set
to_python_datetime(value, USE_TZ) ==
    IF value = None THEN Returns(value)
    ELSE IF value.kind = "datetime" THEN Returns(value)
    ELSE IF value.kind = "date"
    THEN IF USE_TZ THEN Raises("NameError")
         ELSE Returns(PyDatetime(value.date, "00:00:00"))
    ELSE LET text == smart_str(value)
             parsed == parse_datetime(text)
             parsed_date == parse_date(text)
         IN IF parsed.kind = "raise" THEN Raises("ValidationError")
            ELSE IF parsed.value # None THEN parsed
            ELSE IF parsed_date.kind = "raise" THEN Raises("ValidationError")
            ELSE IF parsed_date.value # None
            THEN Returns(PyDatetime(parsed_date.value.date, "00:00:00"))
            ELSE Raises("ValidationError")

\* RANGE_RE.match(stringval).groups(), or None without a match: an opening
\* bracket, everything up to the last comma, the blanks after it skipped,
\* everything up to the closing bracket
RANGE_RE_match(pieces) ==
    LET n == Len(pieces)
        commas == {i \in 2..(n - 1) : pieces[i] = ","}
    IN IF /\ n >= 3
          /\ pieces[1] \in {"[", "("}
          /\ pieces[n] \in {"]", ")"}
          /\ commas # {}
       THEN LET c == CHOOSE i \in commas : \A j \in commas : j <= i
                k == CHOOSE i \in (c + 1)..n :
                        /\ pieces[i] # " "
                        /\ \A j \in (c + 1)..(i - 1) : pieces[j] = " "
            IN <<pieces[1], SubSeq(pieces, 2, c - 1),
                 SubSeq(pieces, k, n - 1), pieces[n]>>
       ELSE None

\* DateTimeRange(start, end, start_inclusive, end_inclusive)
DateTimeRange(start, end, start_inclusive, end_inclusive) ==
    [kind |-> "range", start |-> start, end |-> end,
     start_inclusive |-> start_inclusive, end_inclusive |-> end_inclusive]

\* the assignments of AbstractRange.__init__, given the outcomes of
\* bound_to_python for the two bounds
init_assign(s, e, start_inclusive, end_inclusive) ==
    IF s.kind = "raise" THEN s
    ELSE IF e.kind = "raise" THEN e
    ELSE Returns(DateTimeRange(s.value, e.value,
                               start_inclusive, end_inclusive))

\* AbstractRange.__init__ with DateTimeRange.bound_to_python
DateTimeRange_init(start, end, start_inclusive, end_inclusive, USE_TZ) ==
    init_assign(to_python_datetime(start, USE_TZ),
                to_python_datetime(end, USE_TZ),
                start_inclusive, end_inclusive)

\* the return statement of from_string, given the outcomes of
\* bound_to_python for the two bound texts
from_string_return(start, end, start_inclusive, end_inclusive, USE_TZ) ==
    IF start.kind = "raise" THEN start
    ELSE IF end.kind = "raise" THEN end
    ELSE DateTimeRange_init(start.value, end.value,
                            start_inclusive, end_inclusive, USE_TZ)

\* from_string after the match
from_string_groups(groups, USE_TZ) ==
    IF groups = None THEN Raises("ValueError")
    ELSE from_string_return(to_python_datetime(Str(groups[2]), USE_TZ),
                            to_python_datetime(Str(groups[3]), USE_TZ),
                            groups[1] = "[", groups[4] = "]", USE_TZ)

\* AbstractRange.from_string
from_string(stringval, USE_TZ) ==
    from_string_groups(RANGE_RE_match(stringval.pieces), USE_TZ)

\* AbstractRange.to_string: '%s%s, %s%s' with '' for a bound that is None
to_string(start, end, start_inclusive, end_inclusive) ==
    <<IF start_inclusive THEN "[" ELSE "(">>
    \o (IF start # None THEN start ELSE <<>>)
    \o <<",", " ">>
    \o (IF end # None THEN end ELSE <<>>)
    \o <<IF end_inclusive THEN "]" ELSE ")">>

\* DateTimeRange.isoformat
DateTimeRange_isoformat(range) ==
    to_string(IF range.start # None THEN isoformat(range.start) ELSE None,
              IF range.end # None THEN isoformat(range.end) ELSE None,
              range.start_inclusive, range.end_inclusive)

\* AbstractRange.error_messages
invalid_range_format == <<"'", "%s", "' value has to be a valid range format">>
invalid_range == <<"'", "%s", "' value has to be a list or tuple.">>

\* msg = template % value, then raise ValidationError(msg): a tuple on the
\* right of % supplies one argument per element, and % raises TypeError
\* when the arguments are not as many as the placeholders
RaiseValidationError(template, value) ==
    LET args == IF value.kind = "tuple" THEN value.items ELSE <<value>>
    IN IF Len(args) # Placeholders(template) THEN Raises("TypeError")
       ELSE Raises("ValidationError")

\* the end of AbstractRange.to_python: the isinstance test, after which the
\* method ends without a return statement
to_python_tail(value) ==
    IF value.kind # "range" THEN RaiseValidationError(invalid_range, value)
    ELSE Returns(None)

\* the string branch of to_python after from_string: ValueError is
\* caught and reported, any other exception passes through
to_python_parsed(r, value) ==
    IF r = Raises("ValueError")
    THEN RaiseValidationError(invalid_range_format, value)
    ELSE IF r.kind = "raise" THEN r
    ELSE to_python_tail(r.value)

\* the list branch of to_python after cls(*value)
to_python_built(r) ==
    IF r.kind = "raise" THEN r ELSE to_python_tail(r.value)

\* AbstractRange.to_python, called on DateTimeRange
AbstractRange_to_python(value, USE_TZ) ==
    IF value = None THEN Returns(value)
    ELSE IF value.kind = "str"
    THEN to_python_parsed(from_string(value, USE_TZ), value)
    ELSE IF value.kind \in {"list", "tuple"}
    THEN IF Len(value.items) # 2
         THEN RaiseValidationError(invalid_range, value)
         ELSE to_python_built(DateTimeRange_init(value.items[1], value.items[2],
                                                 TRUE, TRUE, USE_TZ))
    ELSE to_python_tail(value)

\* DateTimeRange.to_python(value) with make_aware left False
DateTimeRange_to_python(value, USE_TZ) == AbstractRange_to_python(value, USE_TZ)

\* DateTimeRangeField.to_python
DateTimeRangeField_to_python(value, USE_TZ) ==
    IF value = None THEN Returns(value)
    ELSE DateTimeRange_to_python(value, USE_TZ)

\* connection.ops.value_to_db_datetimerange(value, ...)
value_to_db_datetimerange(value) == Str(DateTimeRange_isoformat(value))

\* DateTimeRange.is_naive
DateTimeRange_is_naive(range) ==
    \/ range.start # None /\ is_naive(range.start)
    \/ range.end # None /\ is_naive(range.end)

\* DateTimeRangeField.get_prep_value after to_python: naive bounds are
\* made aware when USE_TZ is set, the loop calling timezone.is_naive on
\* each bound, None included
get_prep_value_aware(py, USE_TZ) ==
    IF py.kind = "raise" THEN py
    ELSE IF py.value # None /\ USE_TZ /\ DateTimeRange_is_naive(py.value)
    THEN IF py.value.start = None \/ py.value.end = None
         THEN Raises("AttributeError")
         ELSE Returns(DateTimeRange(aware(py.value.start), aware(py.value.end),
                                    py.value.start_inclusive,
                                    py.value.end_inclusive))
    ELSE py

\* DateTimeRangeField.get_prep_value
DateTimeRangeField_get_prep_value(value, USE_TZ) ==
    get_prep_value_aware(DateTimeRangeField_to_python(value, USE_TZ), USE_TZ)

\* DateTimeRangeField.get_db_prep_value after get_prep_value
get_db_prep_value_db(prep) ==
    IF prep.kind = "raise" THEN prep
    ELSE IF prep.value = None THEN prep
    ELSE Returns(value_to_db_datetimerange(prep.value))

\* DateTimeRangeField.get_db_prep_value(value, connection, prepared=False)
DateTimeRangeField_get_db_prep_value(value, USE_TZ) ==
    get_db_prep_value_db(DateTimeRangeField_get_prep_value(value, USE_TZ))

(* ------------------------- input spaces ------------------------------- *)
leaf_age == Leaf(Constraint("", "age", IntegerField), "gte", "True", Scalar("18"))
leaf_active ==
    Leaf(Constraint("", "status", CharField), "exact", "True", Scalar("active"))
leaf_pending ==
    Leaf(Constraint("", "status", CharField), "exact", "True", Scalar("pending"))

\* the children that are not WhereNodes
Atoms == {NothingNode, EverythingNode, leaf_age, leaf_active}

RECURSIVE ChildSeqs(_)
\* the child lists with at most b descendants in all
ChildSeqs(b) ==
    IF b = 0 THEN {<<>>}
    ELSE {<<>>}
         \cup {<<c>> \o rest : c \in Atoms, rest \in ChildSeqs(b - 1)}
         \cup UNION {
                {<<WhereNode(c, n, cs)>> \o rest :
                    c \in {AND, OR}, n \in BOOLEAN,
                    cs \in ChildSeqs(k), rest \in ChildSeqs(b - 1 - k)}
                : k \in 0..(b - 1)}

\* every where-tree of at most MaxSize descendants
Trees == {WhereNode(c, n, cs) : c \in {AND, OR}, n \in BOOLEAN,
                                cs \in ChildSeqs(MaxSize)}

\* the two-level trees node(x, node(y, z)) over the three leaves of the
\* age/status scenario and the two constant nodes
ScenarioAtoms == {leaf_age, leaf_active, leaf_pending, EverythingNode, NothingNode}
ScenarioTrees ==
    {WhereNode(c1, n1, <<x, WhereNode(c2, n2, <<y, z>>)>>) :
        c1 \in {AND, OR}, n1 \in BOOLEAN, c2 \in {AND, OR}, n2 \in BOOLEAN,
        x \in ScenarioAtoms, y \in ScenarioAtoms, z \in ScenarioAtoms}

Digits == <<"1", "2", "3", "4", "5", "6", "7", "8", "9">>
Reverse(seq) == [i \in 1..Len(seq) |-> seq[Len(seq) + 1 - i]]

\* candidate lists of 0..MaxListLen values, ascending and descending
CandidateLists ==
    {SubSeq(Digits, 1, n) : n \in 0..MaxListLen}
    \cup {Reverse(SubSeq(Digits, 1, n)) : n \in 0..MaxListLen}

ScalarValues == {"18", "True", "False"}

LookupLvalues ==
    {Constraint("", "id", IntegerField), Constraint("T1", "price", DecimalField)}

\* table aliases of the query being relabeled
Aliases == {"T1", "T2", "T3"}

\* the change maps: some aliases renamed, also to aliases that are keys
ChangeMaps == UNION {[keys -> Aliases] : keys \in SUBSET {"T1", "T2"}}

\* leaves with an alias of their own: Constraints and column tuples, with
\* plain values and with sub-query values
RelabelAtoms ==
    {NothingNode,
     Leaf(Constraint("", "age", IntegerField), "gte", "True", Scalar("18")),
     Leaf(Constraint("T1", "id", IntegerField), "exact", "True", Query("T2")),
     Leaf(Constraint("T2", "status", CharField), "exact", "datetime",
          Scalar("active")),
     Leaf(ColumnTuple("T1", "id", "IntegerField"), "in", "False", Query("T1")),
     Leaf(ColumnTuple("T3", "price", "DecimalField"), "lt", "True",
          Scalar("18"))}

RECURSIVE ChildSeqsOver(_, _)
\* the child lists over the given atoms with at most b descendants in all
ChildSeqsOver(atoms, b) ==
    IF b = 0 THEN {<<>>}
    ELSE {<<>>}
         \cup {<<c>> \o rest : c \in atoms, rest \in ChildSeqsOver(atoms, b - 1)}
         \cup UNION {
                {<<WhereNode(c, n, cs)>> \o rest :
                    c \in {AND, OR}, n \in BOOLEAN,
                    cs \in ChildSeqsOver(atoms, k),
                    rest \in ChildSeqsOver(atoms, b - 1 - k)}
                : k \in 0..(b - 1)}

\* every where-tree over the aliased leaves
RelabelTrees ==
    {WhereNode(c, n, cs) : c \in {AND, OR}, n \in BOOLEAN,
                           cs \in ChildSeqsOver(RelabelAtoms, MaxRelabelSize)}

\* the timestamps used as range bounds, and their ISO-8601 texts
RangeTimestamps ==
    {PyDatetime("2012-01-01", "12:30:00"), PyDatetime("2012-01-01", "12:33:00")}

\* existing ranges, with bounds that are present or None
Ranges ==
    {DateTimeRange(s, e, si, ei) :
        s \in RangeTimestamps \cup {None}, e \in RangeTimestamps \cup {None},
        si \in BOOLEAN, ei \in BOOLEAN}

\* range strings as to_string writes them: a bracket, a bound in ISO-8601
\* or nothing, a comma and a blank, a bound or nothing, a bracket
BoundTexts == {<<>>} \cup {isoformat(dt) : dt \in RangeTimestamps}
CanonicalStrings ==
    {Str(<<open>> \o a \o <<",", " ">> \o b \o <<close>>) :
        open \in {"[", "("}, a \in BoundTexts, b \in BoundTexts,
        close \in {"]", ")"}}

\* other strings: not in range format, and in range format with other
\* spacing or other bound texts
OtherStrings ==
    {Str(<<"xxxx">>), Str(<<>>),
     Str(<<"[", "2012-01-01", "T", "12:30:00", ",", " ",
           "2012-01-01", "T", "12:33:00">>),
     Str(<<"[", "2012-01-01", "T", "12:30:00", " ",
           "2012-01-01", "T", "12:33:00", "]">>),
     Str(<<"2012-01-01", "T", "12:30:00", ",", " ",
           "2012-01-01", "T", "12:33:00", "]">>),
     Str(<<"[", "2012-01-01", "T", "12:30:00", ",",
           "2012-01-01", "T", "12:33:00", "]">>),
     Str(<<"(", "2012-01-01", " ", "12:30:00", ",", " ", " ",
           "2012-01-02", "]">>),
     Str(<<"[", "2012-13-01", "T", "12:30:00", ",", " ",
           "2012-01-01", "T", "12:33:00", "]">>),
     Str(<<"[", "xxxx", ",", " ", "2012-01-01", "T", "12:33:00", ")">>)}

\* what a list or tuple handed to the range type may hold
SeqItems ==
    RangeTimestamps
    \cup {None, PyDate("2012-01-02"), Str(<<"2012-01-02", "T", "12:33:00">>),
          Str(<<"xxxx">>)}

RECURSIVE SeqsOver(_, _)
\* the sequences of exactly n of the items
SeqsOver(items, n) ==
    IF n = 0 THEN {<<>>}
    ELSE {<<x>> \o rest : x \in items, rest \in SeqsOver(items, n - 1)}

\* every value handed to to_python
RangeValues ==
    {None, Number("5")}
    \cup Ranges \cup CanonicalStrings \cup OtherStrings
    \cup UNION {{List(items) : items \in SeqsOver(SeqItems, n)} : n \in 0..MaxSeqLen}
    \cup UNION {{Tuple(items) : items \in SeqsOver(SeqItems, n)} : n \in 0..MaxSeqLen}

\* the leaves handed to the lookups
LookupLeaves ==
    {Leaf(lv, lk, ann, Scalar(v)) :
        lv \in LookupLvalues, lk \in SimpleLookups \cup {"isnull"},
        ann \in ValueAnnotations, v \in ScalarValues}
    \cup {Leaf(lv, "in", ann, List(items)) :
        lv \in LookupLvalues, ann \in ValueAnnotations,
        items \in CandidateLists}

\* the column references, values and data handed to add
AddConstraints ==
    {Constraint("", "age", IntegerField), Constraint("T1", "name", CharField)}
AddScalars ==
    {Scalar("18"), Scalar("0"), Scalar("2012-01-01 12:30:00"),
     Flagged("7", "False"), Flagged("0", "True"),
     Flagged("2012-01-01 12:30:00", "False")}
AddLists ==
    {List(<<>>), List(<<"1", "2">>), Iterator(<<>>), Iterator(<<"1", "2">>)}
AddData ==
    {Data(obj, LookupInstance(lk), v) :
        obj \in AddConstraints, lk \in {"gte", "exact"}, v \in AddScalars}
    \cup {Data(obj, LookupInstance("in"), v) :
        obj \in AddConstraints, v \in AddLists}
    \cup {Data(obj, LookupInstance("isnull"), Scalar(v)) :
        obj \in AddConstraints \cup {Constraint("T1", "id", None)},
        v \in {"True", "False"}}
    \cup {Data(Constraint("", "age", IntegerField), LookupName("gte"),
               Scalar("18")),
          Data(Constraint("", "age", IntegerField), LookupName("in"),
               Iterator(<<"1", "2">>))}
    \cup {NothingNode, WhereNode(OR, FALSE, <<leaf_age>>),
          WhereNode(AND, FALSE, <<leaf_age, leaf_active>>)}

\* the where-trees a child is added to
AddTrees ==
    {WhereNode(c, n, cs) : c \in {AND, OR}, n \in BOOLEAN,
        cs \in ChildSeqsOver({NothingNode, leaf_age}, MaxAddSize)}

\* sub-query values: a queryset, a query, an expression and a wrapper
SubqueryValues ==
    {Subquery(class, <<"SELECT U0.id FROM t U0 WHERE U0.x = ", "%s">>,
              <<"7">>) :
        class \in {"QuerySet", "Query", "SQLEvaluator", "QueryWrapper"}}
    \cup {Subquery("QuerySet", <<"SELECT U0.id FROM t U0">>, <<>>)}

\* the column references, scalars and lists of the leaves compiled one by
\* one
AtomLvalues ==
    {Constraint("", "id", IntegerField), Constraint("T1", "price", DecimalField),
     Constraint("T1", "day", DateField), Constraint("T1", "owner", ForeignKey)}
AtomScalars == {"18", "2012", "02012", "abc", "missing"}
AtomLists ==
    {<<>>, <<"1">>, <<"1", "2">>, <<"2", "1">>, <<"3", "1", "2">>,
     <<"1", "missing">>}

\* a leaf of every modelled lookup, with a scalar, a list or a sub-query
AtomLeaves ==
    {Leaf(lv, lk, ann, Scalar(v)) :
        lv \in AtomLvalues, lk \in {"exact", "gte", "year", "month", "isnull"},
        ann \in ValueAnnotations, v \in AtomScalars}
    \cup {Leaf(lv, lk, ann, List(items)) :
        lv \in AtomLvalues, lk \in {"in", "range"},
        ann \in ValueAnnotations, items \in AtomLists}
    \cup {Leaf(lv, lk, ann, q) :
        lv \in AtomLvalues,
        lk \in {"exact", "gte", "year", "month", "isnull", "in", "range"},
        ann \in ValueAnnotations, q \in SubqueryValues}

\* the relations: many-to-one to the primary key or to another field of
\* Author, and many-to-many, whose rel has no field_name
Rels ==
    {[to |-> "Author", field_name |-> f] : f \in {"id", "code"}}
    \cup {[to |-> "Author"]}

RECURSIVE RelatedValues(_)
\* scalars, None, and instances whose primary key is such a value again or
\* is gone, at most k objects deep
RelatedValues(k) ==
    IF k = 0 THEN {Scalar("7"), None}
    ELSE RelatedValues(k - 1)
         \cup {Instance(m, "id", [id |-> v, code |-> Scalar("A")]) :
                 m \in {"Author", "Person"},
                 v \in RelatedValues(k - 1) \cup {DoesNotExist}}

\* leaves that raise: EmptyResultSet (In with a falsy annotation),
\* ValueError (Year of a text that is no numeral) and ObjectDoesNotExist
\* (a relation whose related row is gone)
leaf_in_empty ==
    Leaf(Constraint("", "id", IntegerField), "in", "False", List(<<>>))
leaf_year_abc ==
    Leaf(Constraint("T1", "day", DateField), "year", "True", Scalar("abc"))
leaf_owner_missing ==
    Leaf(Constraint("T1", "owner", ForeignKey), "exact", "True",
         Scalar("missing"))

\* the where-trees whose children may raise
ErrorTrees ==
    {WhereNode(c, n, cs) : c \in {AND, OR}, n \in BOOLEAN,
        cs \in ChildSeqsOver({NothingNode, EverythingNode, leaf_age,
                              leaf_in_empty, leaf_year_abc,
                              leaf_owner_missing}, MaxErrorSize)}

(* --------------------------- state machine ---------------------------- *)
\* no relabeling is under way
NotRelabeling ==
    /\ clone = root
    /\ change_map = NoChange
    /\ calls = 0

\* no range value is being converted
NoRange ==
    /\ range_value = None
    /\ settings = [USE_TZ |-> FALSE]
    /\ to_python_result = Pending
    /\ db_prep_value = Pending
    /\ from_string_result = Pending
    /\ isoformat_result = Pending

\* no call of add is modelled
NotAdding ==
    /\ add_data = NothingNode
    /\ add_connector = AND
    /\ add_outcome = Pending
    /\ iterator_left = <<>>
    /\ prepare_calls = 0

\* nothing was normalized, converted, copied or compiled a second time
NoLookupCalls ==
    /\ normalized = Pending
    /\ source_field = ForeignKey
    /\ related_value = None
    /\ converted = Pending
    /\ copied = Pending
    /\ recompiled = Pending

\* a where-tree has been built; nothing is compiled yet
Init ==
    /\ root \in Trees
    /\ connection = DefaultConnection
    /\ result = Pending
    /\ atom = Pending
    /\ compiled = <<>>
    /\ NotRelabeling
    /\ NoRange
    /\ NotAdding
    /\ NoLookupCalls

InitScenario ==
    /\ root \in ScenarioTrees
    /\ connection = DefaultConnection
    /\ result = Pending
    /\ atom = Pending
    /\ compiled = <<>>
    /\ NotRelabeling
    /\ NoRange
    /\ NotAdding
    /\ NoLookupCalls

\* one leaf in a WhereNode of its own, on any backend
InitLookup ==
    /\ root \in {WhereNode(c, n, <<leaf>>) :
                    c \in {AND, OR}, n \in BOOLEAN, leaf \in LookupLeaves}
    /\ connection \in Connections
    /\ result = Pending
    /\ atom = Pending
    /\ compiled = <<>>
    /\ NotRelabeling
    /\ NoRange
    /\ NotAdding
    /\ NoLookupCalls

\* a caller compiles the where clause: root.as_sql(qn, connection)
Compile ==
    /\ result = Pending
    /\ result' = as_sql(root, connection)
    /\ compiled' = Loop(root, connection, 1, Locals(root)).compiled
    /\ UNCHANGED <<root, connection, atom, relabelVars, rangeVars, addVars, lookupVars>>

\* a caller compiles the first child, a leaf, on its own:
\* root.make_atom(child, qn, connection)
MakeAtom ==
    /\ atom = Pending
    /\ Len(root.children) > 0
    /\ root.children[1].type = "leaf"
    /\ atom' = make_atom(root.children[1], connection)
    /\ UNCHANGED <<root, connection, result, compiled, relabelVars, rangeVars, addVars, lookupVars>>

\* a copy of a where-tree is about to be relabeled with a change map
InitRelabel ==
    /\ root \in RelabelTrees
    /\ connection = DefaultConnection
    /\ result = Pending
    /\ atom = Pending
    /\ compiled = <<>>
    /\ clone = root
    /\ change_map \in ChangeMaps
    /\ calls = 0
    /\ NoRange
    /\ NotAdding
    /\ NoLookupCalls

\* clone.relabel_aliases(change_map)
Relabel ==
    /\ calls < MaxCalls
    /\ clone' = relabel_aliases(clone, change_map)
    /\ calls' = calls + 1
    /\ UNCHANGED <<whereVars, change_map, rangeVars, addVars, lookupVars>>

\* a value is about to be handed to the range type and the range field
InitRange ==
    /\ root = WhereNode(AND, FALSE, <<>>)
    /\ connection = DefaultConnection
    /\ result = Pending
    /\ atom = Pending
    /\ compiled = <<>>
    /\ NotRelabeling
    /\ NotAdding
    /\ NoLookupCalls
    /\ range_value \in RangeValues
    /\ settings \in [USE_TZ : BOOLEAN]
    /\ to_python_result = Pending
    /\ db_prep_value = Pending
    /\ from_string_result = Pending
    /\ isoformat_result = Pending

\* DateTimeRange.to_python(value)
ToPython ==
    /\ to_python_result = Pending
    /\ to_python_result' = DateTimeRange_to_python(range_value, settings.USE_TZ)
    /\ UNCHANGED <<whereVars, relabelVars, addVars, lookupVars, range_value, settings,
                   db_prep_value, from_string_result, isoformat_result>>

\* field.get_db_prep_value(value, connection) when the value is saved
GetDbPrepValue ==
    /\ db_prep_value = Pending
    /\ db_prep_value' =
          DateTimeRangeField_get_db_prep_value(range_value, settings.USE_TZ)
    /\ UNCHANGED <<whereVars, relabelVars, addVars, lookupVars, range_value, settings,
                   to_python_result, from_string_result, isoformat_result>>

\* DateTimeRange.from_string(stringval)
FromString ==
    /\ from_string_result = Pending
    /\ range_value.kind = "str"
    /\ from_string_result' = from_string(range_value, settings.USE_TZ)
    /\ UNCHANGED <<whereVars, relabelVars, addVars, lookupVars, range_value, settings,
                   to_python_result, db_prep_value, isoformat_result>>

\* isoformat() of the range that from_string returned
Isoformat ==
    /\ isoformat_result = Pending
    /\ from_string_result.kind = "return"
    /\ isoformat_result' =
          Returns(Str(DateTimeRange_isoformat(from_string_result.value)))
    /\ UNCHANGED <<whereVars, relabelVars, addVars, lookupVars, range_value, settings,
                   to_python_result, db_prep_value, from_string_result>>

\* a where-tree and the arguments of a call of add that is about to be made
InitAdd ==
    /\ root \in AddTrees
    /\ connection = DefaultConnection
    /\ result = Pending
    /\ atom = Pending
    /\ compiled = <<>>
    /\ NotRelabeling
    /\ NoRange
    /\ add_data \in AddData
    /\ add_connector \in {AND, OR}
    /\ add_outcome = Pending
    /\ iterator_left = IF add_data.type = "data" THEN Left(add_data.value)
                       ELSE <<>>
    /\ prepare_calls = 0
    /\ NoLookupCalls

\* root.add(data, connector)
Add ==
    /\ add_outcome = Pending
    /\ root' = add(root, add_data, add_connector).self
    /\ iterator_left' = add(root, add_data, add_connector).left
    /\ add_outcome' = add(root, add_data, add_connector).outcome
    /\ prepare_calls' = add(root, add_data, add_connector).prepare_calls
    /\ UNCHANGED <<connection, result, atom, compiled, relabelVars,
                   rangeVars, lookupVars, add_data, add_connector>>

\* one leaf of any lookup in a WhereNode of its own, on any backend
InitAtom ==
    /\ root \in {WhereNode(AND, n, <<leaf>>) :
                    n \in BOOLEAN, leaf \in AtomLeaves}
    /\ connection \in Connections
    /\ result = Pending
    /\ atom = Pending
    /\ compiled = <<>>
    /\ NotRelabeling
    /\ NoRange
    /\ NotAdding
    /\ NoLookupCalls

\* the lookup of the first child, a leaf, normalizes the leaf's value:
\* lookup.common_normalize(value, field, qn, connection)
Normalize ==
    /\ normalized = Pending
    /\ Len(root.children) > 0
    /\ root.children[1].type = "leaf"
    /\ normalized' = common_normalize_call(root.children[1].lookup,
                          root.children[1].value,
                          root.children[1].lvalue.field, connection)
    /\ UNCHANGED <<whereVars, relabelVars, rangeVars, addVars, source_field,
                   related_value, converted, copied, recompiled>>

\* a value is about to be converted for a lookup across a relation
InitRelated ==
    /\ root = WhereNode(AND, FALSE, <<>>)
    /\ connection = DefaultConnection
    /\ result = Pending
    /\ atom = Pending
    /\ compiled = <<>>
    /\ NotRelabeling
    /\ NoRange
    /\ NotAdding
    /\ normalized = Pending
    /\ source_field \in {RelatedField(rel) : rel \in Rels}
    /\ related_value \in RelatedValues(MaxChain)
    /\ converted = Pending
    /\ copied = Pending
    /\ recompiled = Pending

\* lookup.convert_value(value)
ConvertValue ==
    /\ converted = Pending
    /\ converted' = convert_value(source_field, related_value)
    /\ UNCHANGED <<whereVars, relabelVars, rangeVars, addVars, normalized,
                   source_field, related_value, copied, recompiled>>

\* a where-tree whose children may raise has been built
InitError ==
    /\ root \in ErrorTrees
    /\ connection = DefaultConnection
    /\ result = Pending
    /\ atom = Pending
    /\ compiled = <<>>
    /\ NotRelabeling
    /\ NoRange
    /\ NotAdding
    /\ NoLookupCalls

\* the caller compiles the where clause once more
CompileAgain ==
    /\ result # Pending
    /\ recompiled = Pending
    /\ recompiled' = as_sql(root, connection)
    /\ UNCHANGED <<whereVars, relabelVars, rangeVars, addVars, normalized,
                   source_field, related_value, converted, copied>>

\* copy.deepcopy of the Lookup of the first child, a leaf
DeepCopy ==
    /\ copied = Pending
    /\ Len(root.children) > 0
    /\ root.children[1].type = "leaf"
    /\ copied' = Returns(Lookup_deepcopy(
                     LookupObject(1, root.children[1].lookup), <<>>))
    /\ UNCHANGED <<whereVars, relabelVars, rangeVars, addVars, normalized,
                   source_field, related_value, converted, recompiled>>

Next == Compile

NextRange == ToPython \/ GetDbPrepValue \/ FromString \/ Isoformat

NextRelabel == Relabel

NextAdd == Add \/ Compile

NextLookup == Compile \/ MakeAtom

NextError == Compile \/ CompileAgain \/ MakeAtom \/ DeepCopy

NextRelated == ConvertValue

NextAtom == Normalize \/ MakeAtom \/ Compile

Spec == Init /\ [][Next]_vars

SpecScenario == InitScenario /\ [][Next]_vars

SpecLookup == InitLookup /\ [][NextLookup]_vars

SpecRelabel == InitRelabel /\ [][NextRelabel]_vars

SpecRange == InitRange /\ [][NextRange]_vars

SpecAdd == InitAdd /\ [][NextAdd]_vars

SpecError == InitError /\ [][NextError]_vars

SpecRelated == InitRelated /\ [][NextRelated]_vars

SpecAtom == InitAtom /\ [][NextAtom]_vars

(* ------------------------------ claims -------------------------------- *)
\* the outcome of compiling child i of the root on its own
ChildOutcome(i) == as_sql(root.children[i], connection)

\* return '', []
Everything == Return(<<>>, <<>>)

\* the root with its negated flag set to b
WithNegated(b) == [root EXCEPT !.negated = b]

\* C1: an AND node with a child that resolves to Empty resolves to Empty
\* when it is not negated and to Everything when it is, whatever the other
\* children and wherever the Empty child sits.
C1_AndWithEmptyChild ==
    (/\ result # Pending
     /\ root.connector = AND
     /\ \E i \in 1..Len(root.children) : IsEmpty(ChildOutcome(i)))
    => result = IF root.negated THEN Everything ELSE EmptyResultSet

\* a negated AND node compiled to Everything whose Empty child comes last,
\* after a child with SQL and a child that is Everything
C1_Witness ==
    /\ result = Everything
    /\ root.connector = AND /\ root.negated
    /\ Len(root.children) = 3
    /\ IsSql(ChildOutcome(1))
    /\ IsEverything(ChildOutcome(2))
    /\ IsEmpty(ChildOutcome(3))

\* C2: an OR node with a child that resolves to Everything resolves to
\* Everything when it is not negated and to Empty when it is, whatever the
\* other children and wherever the Everything child sits.
C2_OrWithEverythingChild ==
    (/\ result # Pending
     /\ root.connector = OR
     /\ \E i \in 1..Len(root.children) : IsEverything(ChildOutcome(i)))
    => result = IF root.negated THEN EmptyResultSet ELSE Everything

\* a negated OR node compiled to Empty whose Everything child comes last,
\* after an Empty child and a child with SQL
C2_Witness ==
    /\ result = EmptyResultSet
    /\ root.connector = OR /\ root.negated
    /\ Len(root.children) = 3
    /\ IsEmpty(ChildOutcome(1))
    /\ IsSql(ChildOutcome(2))
    /\ IsEverything(ChildOutcome(3))

\* C3: negation flips the classification: when the node with negated=false
\* resolves to Empty the same node with negated=true resolves to
\* Everything, and when it resolves to Everything the negated node resolves
\* to Empty.
C3_NegationFlips ==
    (result # Pending /\ ~root.negated)
    => LET flipped == as_sql(WithNegated(TRUE), connection)
       IN /\ IsEmpty(result) => IsEverything(flipped)
          /\ IsEverything(result) => IsEmpty(flipped)

\* the negated node whose only child is the root with negated=true
DoubleNegation(connector) == WhereNode(connector, TRUE, <<WithNegated(TRUE)>>)

\* C4: double negation is the identity: NOT(NOT N) resolves to the outcome
\* class of N with negated=false, and when N compiles to SQL s with params
\* p it compiles to 'NOT (NOT (s))' with params p.
C4_DoubleNegation ==
    (result # Pending /\ ~root.negated)
    => \A c \in {AND, OR} :
         LET twice == as_sql(DoubleNegation(c), connection)
         IN /\ IsEmpty(result) => IsEmpty(twice)
            /\ IsEverything(result) => IsEverything(twice)
            /\ IsSql(result) =>
                 /\ IsSql(twice)
                 /\ Text(twice.sql) = "NOT (NOT (" \o Text(result.sql) \o "))"
                 /\ twice.params = result.params

\* AND(age >= 18, OR(status = 'active', status = 'pending')), not negated
ScenarioTree ==
    WhereNode(AND, FALSE,
              <<leaf_age, WhereNode(OR, FALSE, <<leaf_active, leaf_pending>>)>>)

\* C5 as stated: the scenario tree compiles to
\* "age >= %s AND (status = %s OR status = %s)" with params
\* [18, 'active', 'pending'].
C5_ScenarioUnparenthesised ==
    (root = ScenarioTree /\ result # Pending)
    => /\ IsSql(result)
       /\ Text(result.sql) = "age >= %s AND (status = %s OR status = %s)"
       /\ result.params = <<"18", "active", "pending">>

\* C5, amended: the scenario tree compiles to
\* "(age >= %s AND (status = %s OR status = %s))", the root's two joined
\* fragments being parenthesised like the inner node's, with params
\* [18, 'active', 'pending'] in that order.
C5_ScenarioParenthesised ==
    (root = ScenarioTree /\ result # Pending)
    => /\ IsSql(result)
       /\ Text(result.sql) = "(age >= %s AND (status = %s OR status = %s))"
       /\ result.params = <<"18", "active", "pending">>

\* the scenario tree has been compiled to SQL
C5_Witness == root = ScenarioTree /\ IsSql(result)

\* the leaf under test (the first child of the root) and its parts
TheLeaf == root.children[1]
LhsText == Text(prepare_lhs(TheLeaf.lvalue, connection))
Limit == max_in_list_size(connection)

\* the values of a list leaf as the field prepares them, in order
PreparedItems ==
    [i \in 1..Len(TheLeaf.value.items) |->
        get_db_prep_value(TheLeaf.lvalue.field, TheLeaf.value.items[i],
                          connection)]

RECURSIVE CommaList(_)
\* "%s, %s, ..., %s" with k placeholders, k >= 1
CommaList(k) == IF k = 1 THEN "%s" ELSE "%s, " \o CommaList(k - 1)

RECURSIVE Groups(_, _, _)
\* n placeholders in groups 'lhs IN (...)' of at most size, joined by ' OR '
Groups(lhs, n, size) ==
    IF n <= size THEN lhs \o " IN (" \o CommaList(n) \o ")"
    ELSE lhs \o " IN (" \o CommaList(size) \o ") OR " \o Groups(lhs, n - size, size)

\* how often a piece occurs in a sequence of pieces
Count(pieces, piece) ==
    Cardinality({i \in 1..Len(pieces) : pieces[i] = piece})

\* C6: the In lookup with a falsy value annotation raises EmptyResultSet
\* on every backend, and the WhereNode holding it counts the leaf as a
\* known-nothing child (it is Empty, or Everything when negated).
C6_InFalsyRaises ==
    (TheLeaf.lookup = "in" /\ Falsy(TheLeaf.value_annotation))
    => /\ atom # Pending => atom = EmptyResultSet
       /\ result # Pending =>
            result = IF root.negated THEN Everything ELSE EmptyResultSet

\* an In leaf with an empty list and a falsy annotation, compiled on a
\* backend with limit 2, alone and inside its node
C6_Witness ==
    /\ TheLeaf.lookup = "in" /\ TheLeaf.value_annotation = "False"
    /\ TheLeaf.value.items = <<>>
    /\ Limit = 2
    /\ ~root.negated
    /\ atom = EmptyResultSet
    /\ result = EmptyResultSet

\* the In leaf of the end-to-end scenario: id IN [1, 2, 3, 4, 5]
leaf_id_in ==
    Leaf(Constraint("", "id", IntegerField), "in", "True",
         List(<<"1", "2", "3", "4", "5">>))

\* an In leaf with a truthy annotation has been compiled on its own
InCompiled ==
    /\ atom # Pending
    /\ TheLeaf.lookup = "in"
    /\ ~Falsy(TheLeaf.value_annotation)

\* C7: with N values and a limit max, 1 <= max < N, In renders '(' +
\* ceil(N/max) groups 'lhs IN (...)' joined by ' OR ' + ')', no group
\* with more than max placeholders, N placeholders in all, and the i-th
\* param is the i-th value (as the field prepares it); [1,2,3,4,5] on id
\* with max 2 gives "(id IN (%s, %s) OR id IN (%s, %s) OR id IN (%s))".
C7_InChunked ==
    LET n == Len(TheLeaf.value.items)
    IN (InCompiled /\ Limit >= 1 /\ n > Limit)
       => /\ IsSql(atom)
          /\ Text(atom.sql) = "(" \o Groups(LhsText, n, Limit) \o ")"
          /\ Count(atom.sql, " IN (") = (n + Limit - 1) \div Limit
          /\ Count(atom.sql, " OR ") = ((n + Limit - 1) \div Limit) - 1
          /\ Placeholders(atom.sql) = n
          /\ atom.params = PreparedItems
          /\ TheLeaf.lvalue.field = IntegerField
               => atom.params = TheLeaf.value.items
          /\ (TheLeaf = leaf_id_in /\ Limit = 2 /\ connection.vendor = "generic")
               => /\ Text(atom.sql)
                       = "(id IN (%s, %s) OR id IN (%s, %s) OR id IN (%s))"
                  /\ atom.params = <<"1", "2", "3", "4", "5">>

\* id IN [1,2,3,4,5] compiled on a backend with limit 2
C7_Witness ==
    /\ TheLeaf = leaf_id_in
    /\ connection = [vendor |-> "generic", max_in_list_size |-> 2]
    /\ IsSql(atom)

\* C8: with N values, 1 <= N <= max or no limit at all, In renders one
\* 'lhs IN (...)' with N placeholders, no ' OR ' and no enclosing
\* parentheses, the params being the N values in order; one value gives
\* 'lhs IN (%s)' with one param.
C8_InSingleGroup ==
    LET n == Len(TheLeaf.value.items)
    IN (InCompiled /\ n >= 1 /\ (Limit = 0 \/ n <= Limit))
       => /\ IsSql(atom)
          /\ Text(atom.sql) = LhsText \o " IN (" \o CommaList(n) \o ")"
          /\ Count(atom.sql, " OR ") = 0
          /\ Count(atom.sql, " IN (") = 1
          /\ Head(atom.sql) # "("
          /\ Placeholders(atom.sql) = n
          /\ atom.params = PreparedItems
          /\ TheLeaf.lvalue.field = IntegerField
               => atom.params = TheLeaf.value.items
          /\ n = 1 => /\ Text(atom.sql) = LhsText \o " IN (%s)"
                      /\ Len(atom.params) = 1

\* an In leaf with exactly as many values as the backend's limit of 2
C8_Witness ==
    /\ InCompiled
    /\ Len(TheLeaf.value.items) = 2
    /\ Limit = 2
    /\ IsSql(atom)

\* C9: IsNull emits no params, 'lhs IS NULL' for a truthy annotation and
\* 'lhs IS NOT NULL' for a falsy one, and the stored value does not
\* change the output.
C9_IsNullNoParams ==
    (atom # Pending /\ TheLeaf.lookup = "isnull")
    => /\ IsSql(atom)
       /\ atom.params = <<>>
       /\ Text(atom.sql) =
            LhsText \o (IF Falsy(TheLeaf.value_annotation)
                        THEN " IS NOT NULL" ELSE " IS NULL")
       /\ \A v \in ScalarValues :
            make_atom([TheLeaf EXCEPT !.value = Scalar(v)], connection) = atom

\* an IsNull leaf whose stored value (True) disagrees with its falsy
\* annotation, compiled to IS NOT NULL
C9_Witness ==
    /\ TheLeaf.lookup = "isnull"
    /\ TheLeaf.value_annotation = "False"
    /\ TheLeaf.value = Scalar("True")
    /\ IsSql(atom)
    /\ Text(atom.sql) = LhsText \o " IS NOT NULL"

\* C10: a WhereNode without children never raises EmptyResultSet and
\* returns no SQL text and no params, for either connector and either
\* value of negated.
C10_NoChildren ==
    (result # Pending /\ root.children = <<>>)
    => /\ result.kind = "return"
       /\ result.sql = <<>>
       /\ result.params = <<>>

\* a negated OR node without children has been compiled
C10_Witness ==
    /\ root.children = <<>>
    /\ root.connector = OR /\ root.negated
    /\ result = ReturnNone(<<>>)

RECURSIVE LeavesAt(_, _)
\* the leaves of a tree from left to right, each with its nesting depth
LeavesAt(node, depth) ==
    CASE node.type = "leaf" -> <<[leaf |-> node, depth |-> depth]>>
      [] node.type = "WhereNode" ->
            LET RECURSIVE Of(_)
                Of(i) == IF i > Len(node.children) THEN <<>>
                         ELSE LeavesAt(node.children[i], depth + 1) \o Of(i + 1)
            IN Of(1)
      [] OTHER -> <<>>

\* the leaves of the tree before relabeling and of the relabeled copy
LeavesBefore == LeavesAt(root, 0)
LeavesAfter == LeavesAt(clone, 0)

\* the alias the change map gives for an alias
Renamed(alias) ==
    IF alias \in DOMAIN change_map THEN change_map[alias] ELSE alias

\* C11: after relabel_aliases(M) on a root whose leaves each hold their own
\* column reference, every leaf at every nesting depth whose alias a was a
\* key of M has alias M[a], the mapping being applied once even when M[a]
\* is a key of M too, and every leaf value that exposes relabel_aliases has
\* been relabeled with M once.
C11_RelabelAppliesMapOnce ==
    calls = 1
    => /\ Len(LeavesAfter) = Len(LeavesBefore)
       /\ \A i \in 1..Len(LeavesBefore) :
            LET before == LeavesBefore[i].leaf
                after == LeavesAfter[i].leaf
            IN /\ LeavesAfter[i].depth = LeavesBefore[i].depth
               /\ before.lvalue.alias \in DOMAIN change_map
                    => after.lvalue.alias = change_map[before.lvalue.alias]
               /\ HasRelabelAliases(before.value)
                    => /\ HasRelabelAliases(after.value)
                       /\ after.value.alias = Renamed(before.value.alias)

\* one call with the map T1 -> T2, T2 -> T3 on a tree with a leaf two
\* levels down that had alias T1 and a sub-query value over T2: the leaf
\* now has alias T2 and its value is over T3
C11_Witness ==
    /\ calls = 1
    /\ change_map = [a \in {"T1", "T2"} |-> IF a = "T1" THEN "T2" ELSE "T3"]
    /\ \E i \in 1..Len(LeavesBefore) :
         /\ LeavesBefore[i].depth = 2
         /\ LeavesBefore[i].leaf.lvalue.alias = "T1"
         /\ LeavesBefore[i].leaf.value = Query("T2")
         /\ LeavesAfter[i].leaf.lvalue.alias = "T2"
         /\ LeavesAfter[i].leaf.value = Query("T3")

RECURSIVE Unaliased(_)
\* a tree with every table alias blanked: what is left is its shape, the
\* connectors and negated flags, and each leaf's column name, field,
\* lookup, value annotation and value
Unaliased(node) ==
    CASE node.type = "leaf" ->
            [node EXCEPT !.lvalue.alias = "",
                         !.value = IF HasRelabelAliases(node.value)
                                   THEN Query("") ELSE node.value]
      [] node.type = "WhereNode" ->
            [node EXCEPT !.children =
                [pos \in 1..Len(node.children) |-> Unaliased(node.children[pos])]]
      [] OTHER -> node

\* C12: relabel_aliases(M), called any number of times, leaves unchanged
\* every column reference whose alias is not a key of M, and never changes
\* a column name, a field, a lookup, a value annotation, the connector, the
\* negated flag or the shape of the tree.
C12_RelabelFrame ==
    /\ Unaliased(clone) = Unaliased(root)
    /\ Len(LeavesAfter) = Len(LeavesBefore)
    /\ \A i \in 1..Len(LeavesBefore) :
         LeavesBefore[i].leaf.lvalue.alias \notin DOMAIN change_map
         => LeavesAfter[i].leaf.lvalue = LeavesBefore[i].leaf.lvalue

\* the second call with a map that renames T1 and T2 has been made on a
\* tree with a negated nested node and a column tuple over T3, which is
\* still over T3
C12_Witness ==
    /\ calls = 2
    /\ DOMAIN change_map = {"T1", "T2"}
    /\ \E i \in 1..Len(root.children) :
         /\ root.children[i].type = "WhereNode"
         /\ root.children[i].negated
    /\ \E i \in 1..Len(LeavesBefore) :
         /\ LeavesBefore[i].leaf.lvalue = ColumnTuple("T3", "price", "DecimalField")
         /\ LeavesAfter[i].leaf.lvalue = ColumnTuple("T3", "price", "DecimalField")

\* the range a valid input stands for: the range itself, the two bounds of
\* a list or tuple (both ends inclusive), or the bounds and brackets that
\* a well-formed string spells out
StandsFor(v, range) ==
    \/ v = range
    \/ /\ v \in {List(<<range.start, range.end>>),
                 Tuple(<<range.start, range.end>>)}
       /\ range.start_inclusive /\ range.end_inclusive
    \/ /\ range.start # None /\ range.end # None
       /\ v = Str(to_string(isoformat(range.start), isoformat(range.end),
                            range.start_inclusive, range.end_inclusive))

\* C13: to_python of a valid range input (a DateTimeRange, a two-element
\* list or tuple of bounds, a well-formed range string) yields the
\* DateTimeRange with the same bounds and inclusivity flags, and only None
\* converts to None; a range handed to the field is prepared for the
\* database as a non-null value.
C13_ToPythonYieldsRange ==
    /\ to_python_result # Pending =>
         /\ \A range \in Ranges :
              StandsFor(range_value, range) => to_python_result = Returns(range)
         /\ to_python_result = Returns(None) => range_value = None
    /\ (db_prep_value # Pending /\ range_value \in Ranges) =>
         /\ db_prep_value.kind = "return"
         /\ db_prep_value.value # None

\* the inputs that do not parse: a string that is not in range format, a
\* list or tuple whose length is not 2, a value of another type
Unparsable(v) ==
    \/ v.kind = "str" /\ RANGE_RE_match(v.pieces) = None
    \/ v.kind \in {"list", "tuple"} /\ Len(v.items) # 2
    \/ v.kind = "int"

\* C14: to_python raises ValidationError, and no other error, for a string
\* that is not in range format, for a list or tuple whose length is not 2
\* and for a value of any other type that is no range.
C14_UnparsableRaisesValidationError ==
    (to_python_result # Pending /\ Unparsable(range_value))
    => to_python_result = Raises("ValidationError")

\* C15: from_string followed by rendering with ISO-8601 bounds gives back
\* the string, for every pair of brackets and for bounds that are present
\* or absent; "[2012-01-01T12:30:00, 2012-01-01T12:33:00]" comes back as
\* it is.
C15_RangeTextRoundTrip ==
    range_value \in CanonicalStrings
    => /\ from_string_result # Pending => from_string_result.kind = "return"
       /\ isoformat_result # Pending =>
            /\ isoformat_result = Returns(range_value)
            /\ Text(range_value.pieces)
                   = "[2012-01-01T12:30:00, 2012-01-01T12:33:00]"
                 => Text(isoformat_result.value.pieces)
                        = "[2012-01-01T12:30:00, 2012-01-01T12:33:00]"

\* the positions of the root's children that are not skipped
NonSkipped == {i \in 1..Len(root.children) : ~IsSkipped(ChildOutcome(i))}

\* C16: counting only the children that are not skipped, an OR node whose
\* non-skipped children (at least one) are all known-nothing resolves to
\* Empty (Everything when negated) and an AND node whose non-skipped
\* children (at least one) are all known-everything resolves to Everything
\* (Empty when negated), wherever the skipped children sit.
C16_ThresholdsCountNonSkipped ==
    (result # Pending /\ NonSkipped # {})
    => /\ (/\ root.connector = OR
           /\ \A i \in NonSkipped : IsEmpty(ChildOutcome(i)))
          => result = IF root.negated THEN Everything ELSE EmptyResultSet
       /\ (/\ root.connector = AND
           /\ \A i \in NonSkipped : IsEverything(ChildOutcome(i)))
          => result = IF root.negated THEN EmptyResultSet ELSE Everything

\* the root's first child that is known-nothing (AND) or known-everything
\* (OR) is child k
FirstDeciding(k) ==
    IF root.connector = AND
    THEN /\ IsEmpty(ChildOutcome(k))
         /\ \A j \in 1..(k - 1) : ~IsEmpty(ChildOutcome(j))
    ELSE /\ IsEverything(ChildOutcome(k))
         /\ \A j \in 1..(k - 1) : ~IsEverything(ChildOutcome(j))

\* C17: the children are compiled from left to right, and no child after
\* the first known-nothing child of an AND node, nor after the first
\* known-everything child of an OR node, is compiled: the outcome of the
\* node is decided at that child.
C17_EarlyExit ==
    result # Pending
    => /\ compiled = [i \in 1..Len(compiled) |-> i]
       /\ \A k \in 1..Len(root.children) :
            FirstDeciding(k)
            => /\ Len(compiled) = k
               /\ result = IF (root.connector = AND) = root.negated
                           THEN Everything ELSE EmptyResultSet

\* an AND node of three children whose second child is NothingNode and
\* whose third child is a leaf: two children were compiled and the node
\* is Empty
C17_Witness ==
    /\ result = EmptyResultSet
    /\ root.connector = AND /\ ~root.negated
    /\ Len(root.children) = 3
    /\ IsSql(ChildOutcome(1))
    /\ root.children[2] = NothingNode
    /\ root.children[3].type = "leaf"
    /\ compiled = <<1, 2>>

\* the positions of the root's children that compile to SQL, in child order
SqlChildren ==
    LET RECURSIVE From(_)
        From(i) == IF i > Len(root.children) THEN <<>>
                   ELSE (IF IsSql(ChildOutcome(i)) THEN <<i>> ELSE <<>>)
                        \o From(i + 1)
    IN From(1)

RECURSIVE JoinText(_, _)
\* sep.join(texts)
JoinText(texts, sep) ==
    IF texts = <<>> THEN ""
    ELSE IF Len(texts) = 1 THEN texts[1]
    ELSE texts[1] \o sep \o JoinText(Tail(texts), sep)

\* the fragments of the children that compile to SQL, joined with the
\* root's connector
Joined ==
    JoinText([k \in 1..Len(SqlChildren) |->
                 Text(ChildOutcome(SqlChildren[k]).sql)],
             " " \o root.connector \o " ")

\* C18: a node that resolves to SQL joins the fragments of the children
\* that produced SQL, in child order, with ' AND ' or ' OR '; negated, it
\* returns 'NOT (' + joined + ')' even for a single fragment; not negated,
\* it returns '(' + joined + ')' for more than one fragment and the bare
\* fragment for exactly one.
C18_SqlAssembly ==
    (result # Pending /\ IsSql(result))
    => /\ Len(SqlChildren) >= 1
       /\ Text(result.sql) =
            IF root.negated THEN "NOT (" \o Joined \o ")"
            ELSE IF Len(SqlChildren) > 1 THEN "(" \o Joined \o ")"
            ELSE Joined

\* a negated OR node with one SQL child after an Empty child compiles to
\* NOT (age >= %s)
C18_Witness ==
    /\ root.connector = OR /\ root.negated
    /\ root.children = <<NothingNode, leaf_age>>
    /\ IsSql(result)
    /\ Text(result.sql) = "NOT (age >= %s)"

\* the params of the children that compile to SQL, concatenated in child
\* order
SqlChildrenParams ==
    LET RECURSIVE From(_)
        From(k) == IF k > Len(SqlChildren) THEN <<>>
                   ELSE ChildOutcome(SqlChildren[k]).params \o From(k + 1)
    IN From(1)

\* C19: the params of a node that resolves to SQL are the params of the
\* children that contributed a fragment, concatenated in child order, with
\* nothing from children that were Empty, Everything or skipped; when
\* as_sql returns '' or None the params are empty.
C19_ParamAccumulation ==
    (result # Pending /\ result.kind = "return")
    => /\ IsSql(result) => result.params = SqlChildrenParams
       /\ (IsEverything(result) \/ IsSkipped(result)) => result.params = <<>>

\* an OR node with an Empty child between two leaves, compiled to SQL
\* with the params of the leaves in child order
C19_Witness ==
    /\ root.connector = OR
    /\ root.children = <<leaf_active, NothingNode, leaf_age>>
    /\ IsSql(result)
    /\ result.params = <<"active", "18">>

\* the annotation of a raw value: the datetime marker for a datetime, else
\* the value's own value_annotation attribute, else the truthiness of the
\* value, an iterator counting as the list of what it still yields
AnnotationOfRaw(value) ==
    IF value.kind = "scalar" /\ value.v \in DatetimeScalars THEN "datetime"
    ELSE IF "value_annotation" \in DOMAIN value THEN value.value_annotation
    ELSE IF value.kind \in {"list", "iterator"}
    THEN (IF Len(value.items) > 0 THEN "True" ELSE "False")
    ELSE IF value.v \in {"0", "", "None", "False"} THEN "False" ELSE "True"

\* C20: after root.add((obj, lookup, raw_value), connector) has returned,
\* the root has a child (obj, lookup, annotation, prepared_value) whose
\* annotation is the one of the raw value (an iterator first turned into a
\* list) and whose value is what obj.prepare made of it; this stays so
\* when the tree is compiled afterwards.
C20_AddStoresAnnotatedLeaf ==
    (add_outcome = Returns(None) /\ add_data.type = "data") =>
        \E i \in 1..Len(root.children) :
            /\ root.children[i].type = "leaf"
            /\ root.children[i].lvalue = add_data.obj
            /\ root.children[i].lookup = add_data.lookup_type.name
            /\ root.children[i].value_annotation
                   = AnnotationOfRaw(add_data.value)
            /\ root.children[i].value
                   = Constraint_prepare(add_data.obj,
                                        add_data.lookup_type.name,
                                        materialise(add_data.value))

\* the falsy number 0 was added for a CharField, whose prepare step makes
\* it a non-empty text, and the root, empty before, was compiled afterwards
C20_Witness ==
    /\ add_outcome = Returns(None)
    /\ add_data = Data(Constraint("T1", "name", CharField),
                       LookupInstance("exact"), Scalar("0"))
    /\ root.children = <<Leaf(Constraint("T1", "name", CharField), "exact",
                              "False", Scalar("u'0'"))>>
    /\ IsSql(result)

\* the first child of the root, a leaf
FirstLeaf == root.children[1]

\* C21: common_normalize of a value that is no sub-query returns, in RAW
\* mode, the one-element sequence of the value as it is; in FIELD_PREPARE
\* mode one parameter, the field's get_db_prep_value of the value; in
\* LIST_FIELD_PREPARE mode the get_db_prep_value of each element, as many
\* as the input has and in the input's order.
C21_CommonNormalizeModes ==
    (normalized.kind = "return" /\ FirstLeaf.value.kind # "subquery") =>
        CASE rhs_prepare(FirstLeaf.lookup) = "RAW" ->
                normalized.value = <<FirstLeaf.value.v>>
          [] rhs_prepare(FirstLeaf.lookup) = "FIELD_PREPARE" ->
                /\ Len(normalized.value) = 1
                /\ normalized.value[1]
                     = get_db_prep_value(FirstLeaf.lvalue.field,
                                         FirstLeaf.value.v, connection)
          [] rhs_prepare(FirstLeaf.lookup) = "LIST_FIELD_PREPARE" ->
                /\ Len(normalized.value) = Len(FirstLeaf.value.items)
                /\ \A i \in 1..Len(FirstLeaf.value.items) :
                      normalized.value[i]
                        = get_db_prep_value(FirstLeaf.lvalue.field,
                                            FirstLeaf.value.items[i],
                                            connection)

\* a list of three prices out of order was normalized for the In lookup
C21_Witness ==
    /\ FirstLeaf.lookup = "in"
    /\ FirstLeaf.lvalue.field = DecimalField
    /\ FirstLeaf.value = List(<<"3", "1", "2">>)
    /\ normalized = Returns(<<"3.00", "1.00", "2.00">>)

\* whether the pieces of part occur, in a row, among the pieces of whole
Occurs(part, whole) ==
    \E k \in 0..(Len(whole) - Len(part)) :
        SubSeq(whole, k + 1, k + Len(part)) = part

\* the SQL and params of a leaf with a sub-query value: the sub-query's SQL
\* stands in the leaf's SQL, no placeholder but the sub-query's own is left,
\* and the params are the sub-query's; for In the SQL is 'lhs IN ' followed
\* by the sub-query, in one piece
SubquerySpliced(leaf, outcome, conn) ==
    /\ outcome.kind = "return"
    /\ outcome.params = leaf.value.params
    /\ Occurs(leaf.value.sql, outcome.sql)
    /\ Placeholders(outcome.sql) = Placeholders(leaf.value.sql)
    /\ leaf.lookup = "in" =>
          /\ SubSeq(outcome.sql, 1, Len(prepare_lhs(leaf.lvalue, conn)) + 1)
               = prepare_lhs(leaf.lvalue, conn) \o <<" IN ">>
          /\ \A i \in 1..Len(outcome.sql) : outcome.sql[i] # " OR "

\* C22: a leaf whose value is a sub-query compiles to its SQL with the
\* sub-query's SQL in place of the placeholder and with exactly the
\* sub-query's params, without field conversion; In renders
\* 'lhs IN <sub-query sql>' unchunked on every backend.  (IsNull, which
\* ignores its value, and In with a falsy annotation, which raises
\* EmptyResultSet, are left aside.)
C22_SubquerySplicedForAnyLookup ==
    (/\ atom # Pending
     /\ FirstLeaf.value.kind = "subquery"
     /\ FirstLeaf.lookup # "isnull"
     /\ ~cast_sql_raises(FirstLeaf.lookup, FirstLeaf.value_annotation))
        => SubquerySpliced(FirstLeaf, atom, connection)

RECURSIVE WalkEnd(_, _)
\* where the walk from a value ends: at the value itself when it is no
\* object, at None when the next related object is gone, else where the
\* walk from the next object ends; the hop goes through the named field
\* or, when none is named (""), through the primary key
WalkEnd(value, name) ==
    IF value.kind # "instance" THEN value
    ELSE IF value.attrs[IF name = "" THEN value.pk ELSE name] = DoesNotExist
    THEN None
    ELSE WalkEnd(value.attrs[IF name = "" THEN value.pk ELSE name], "")

\* C23: convert_value raises nothing; it returns a scalar unchanged, and
\* for a model instance the first value that is no object on the walk that
\* starts through the relation's field_name when the value is an instance
\* of the related model and goes on through primary keys, or None when a
\* related object on the walk is gone.
C23_ConvertValueNeverRaises ==
    converted # Pending =>
        /\ converted.kind = "return"
        /\ converted.value
             = WalkEnd(related_value,
                       IF isinstance(related_value, source_field.rel.to)
                       THEN source_field.rel.field_name ELSE "")

RECURSIVE WhereNodes(_)
\* a node and the WhereNodes below it
WhereNodes(node) ==
    IF node.type # "WhereNode" THEN {}
    ELSE {node} \cup UNION {WhereNodes(node.children[i]) :
                               i \in 1..Len(node.children)}

\* the positions of the children of a node that its as_sql compiles
CompiledOf(node) ==
    {Loop(node, connection, 1, Locals(node)).compiled[k] :
        k \in 1..Len(Loop(node, connection, 1, Locals(node)).compiled)}

\* of the compiled children of a node, how many are known-nothing, how
\* many known-everything, and how many are left when the skipped ones are
\* taken from all the children
NothingCount(node) ==
    Cardinality({i \in CompiledOf(node) :
                    IsEmpty(as_sql(node.children[i], connection))})
EverythingCount(node) ==
    Cardinality({i \in CompiledOf(node) :
                    IsEverything(as_sql(node.children[i], connection))})
NonEmptyCount(node) ==
    Len(node.children)
    - Cardinality({i \in CompiledOf(node) :
                      IsSkipped(as_sql(node.children[i], connection))})

\* a node is Empty by its own counts: not negated and with as many
\* known-nothing children as it takes (one for AND, all for OR), or negated
\* and with as many known-everything children as it takes (all for AND,
\* one for OR)
EmptyByCounts(node) ==
    IF node.negated
    THEN EverythingCount(node)
            >= (IF node.connector = AND THEN NonEmptyCount(node) ELSE 1)
    ELSE NothingCount(node)
            >= (IF node.connector = AND THEN 1 ELSE NonEmptyCount(node))

\* C24: in every node of the tree, as_sql raises EmptyResultSet only when
\* the node is Empty by its own counts of known-nothing and known-everything
\* children (a child's EmptyResultSet is caught and counted), and an
\* exception other than EmptyResultSet raised by a child the node compiles
\* is the outcome of the node: the root raises it and returns no
\* (sql, params).
C24_ErrorPropagation ==
    result # Pending =>
        /\ result = as_sql(root, connection)
        /\ \A node \in WhereNodes(root) :
              /\ IsEmpty(as_sql(node, connection)) => EmptyByCounts(node)
              /\ \A i \in CompiledOf(node) :
                    IsError(as_sql(node.children[i], connection))
                    => as_sql(node, connection)
                         = as_sql(node.children[i], connection)

\* an OR root caught the EmptyResultSet of its first child, an In leaf with
\* no candidates, and then raised the ValueError of its second child, a
\* Year leaf
C24_Witness ==
    /\ root = WhereNode(OR, FALSE, <<leaf_in_empty, leaf_year_abc>>)
    /\ compiled = <<1, 2>>
    /\ result = Raises("ValueError")

CountedLookups ==
    SimpleLookups \cup DateLookups \cup {"in", "range", "year", "isnull"}

\* C26: a leaf of Exact, LessThan, EqOrLessThan, GreaterThan,
\* EqOrGreaterThan, In, Range, Year, Month, Day, WeekDay or IsNull with a
\* scalar or list value compiles to SQL with as many %s placeholders as it
\* has params; Range gives 'lhs BETWEEN %s AND %s' with two params, Year
\* the same with the two bounds of the backend; and the SQL of the root has
\* as many placeholders as the root has params.
C26_PlaceholdersMatchParams ==
    /\ (/\ atom.kind = "return"
        /\ FirstLeaf.value.kind # "subquery"
        /\ FirstLeaf.lookup \in CountedLookups)
       => /\ Placeholders(atom.sql) = Len(atom.params)
          /\ FirstLeaf.lookup \in {"range", "year"}
             => /\ atom.sql = prepare_lhs(FirstLeaf.lvalue, connection)
                                \o <<" BETWEEN ", "%s", " AND ", "%s">>
                /\ Len(atom.params) = 2
    /\ (/\ result.kind = "return"
        /\ FirstLeaf.value.kind # "subquery"
        /\ FirstLeaf.lookup \in CountedLookups)
       => Placeholders(result.sql) = Len(result.params)

\* C27: add of a leaf whose lookup is a string raises ValueError and
\* leaves the node's children, connector and negated flag as they were,
\* leaves an iterator value with all its items, and does not call the
\* prepare step of the column reference.
C27_StringLookupRejected ==
    [][(/\ add_outcome = Pending
        /\ add_outcome' # Pending
        /\ add_data.type = "data"
        /\ add_data.lookup_type.py = "str")
       => /\ add_outcome' = Raises("ValueError")
          /\ root' = root
          /\ iterator_left' = Left(add_data.value)
          /\ prepare_calls' = 0]_vars

C27_Witness ==
    /\ add_data = Data(Constraint("", "age", IntegerField), LookupName("in"),
                       Iterator(<<"1", "2">>))
    /\ add_outcome = Raises("ValueError")
    /\ iterator_left = <<"1", "2">>
    /\ prepare_calls = 0
    /\ root = WhereNode(OR, TRUE, <<leaf_age>>)
====
